---- MODULE Spec2Model ----
(***************************************************************************)
(* Hexagonal chess (Glinski): board, move generator, check-aware           *)
(* validator, evaluator and alpha-beta search engine.                      *)
(*                                                                         *)
(* A board is a record                                                     *)
(*   [tiles, current_turn, en_passant_target, pending_promotion,           *)
(*    captured_pieces]                                                     *)
(* tiles maps the coordinates <<q, r>> of the occupied tiles to their       *)
(* occupants; a tile of Tiles outside its domain is an empty tile          *)
(* (tile.piece is None).  Python's None is NoPiece for an occupant and     *)
(* <<>> for a coordinate or a pending-promotion tuple.                     *)
(***************************************************************************)
EXTENDS Integers, Sequences, FiniteSets, TLC

VARIABLES
    board,          \* the board the UI and play_best_move mutate
    hash_order,     \* iteration order of Python's set(), fixed per run
    ret,            \* what the last operation returned
    last,           \* the last operation: its name, its inputs, the piece and turn it found
    movers,         \* the colours of the pieces moved by the successful moves so far
    all_legal,      \* every applied move so far came from get_legal_moves_with_check
    engine_color,   \* ChessEngine.engine_color
    search_depth,   \* ChessEngine.search_depth
    best_move,      \* what the last find_best_move returned
    played,         \* what the last play_best_move returned
    pre,            \* the board as it was when the last engine call was entered
    out,            \* what the last call of a generator, the evaluator or a helper returned
    stack,          \* the frames of a find_best_move call in progress, the root first
    nodes_searched, \* ChessEngine.nodes_searched
    engine_board,   \* main's engine_board, the board chess_engine searches
    shares_tiles,   \* engine_board.tiles holds the tile objects of board.tiles
    engine_thinking,\* main's engine_thinking
    tasks,          \* the make_engine_move tasks created and not finished, oldest first
    selected_tile,  \* main's selected_tile
    dragging,       \* main's dragging
    legal_moves,    \* main's legal_moves
    history,        \* main's history
    flip_locked,    \* main's flip_locked
    flipped         \* board.flipped

\* the variables of a search followed call by call
descent_vars == <<stack, nodes_searched>>

\* the variables of main: the engine's board, the tasks and the mouse state
ui_vars == <<engine_board, shares_tiles, engine_thinking, tasks, selected_tile, dragging,
             legal_moves, history, flip_locked, flipped>>

vars == <<board, hash_order, ret, last, movers, all_legal, engine_color, search_depth,
          best_move, played, pre, out, descent_vars, ui_vars>>

-----------------------------------------------------------------------------
(* Constants of the program *)

BOARD_SIZE == 6
MAX_PHASE == 26
COMPUTATION_DEPTH == 2

Abs(x) == IF x < 0 THEN -x ELSE x
Max2(a, b) == IF a >= b THEN a ELSE b
Min2(a, b) == IF a <= b THEN a ELSE b

NoPiece == [color |-> "none", name |-> "none"]
NoCoord == <<>>
Pc(c, n) == [color |-> c, name |-> n]
Colors == {"white", "black"}
Names == {"pawn", "knight", "bishop", "rook", "queen", "king"}

Opp(c) == IF c = "white" THEN "black" ELSE "white"

PIECE_VALUES(n) ==
    CASE n = "pawn" -> 100
      [] n = "knight" -> 320
      [] n = "bishop" -> 330
      [] n = "rook" -> 500
      [] n = "queen" -> 900
      [] n = "king" -> 20000
      [] OTHER -> 0

PHASE_VALUES(n) ==
    CASE n = "knight" -> 1
      [] n = "bishop" -> 1
      [] n = "rook" -> 2
      [] n = "queen" -> 4
      [] OTHER -> 0

-----------------------------------------------------------------------------
(* Geometry and tiles *)

\* HexBoard._generate_tiles: the coordinates of a hexagon of side BOARD_SIZE
Tiles ==
    { p \in ((1 - BOARD_SIZE)..(BOARD_SIZE - 1)) \X ((1 - BOARD_SIZE)..(BOARD_SIZE - 1)) :
        /\ p[2] >= Max2(1 - BOARD_SIZE, -p[1] - BOARD_SIZE + 1)
        /\ p[2] <= Min2(BOARD_SIZE - 1, -p[1] + BOARD_SIZE - 1) }

\* HexBoard._get_hex_color: the colour class of a tile
get_hex_color(p) == (p[1] - p[2]) % 3

Add(p, d) == <<p[1] + d[1], p[2] + d[2]>>

\* p comes before q in the insertion order of the tiles dict (q ascending, then r)
TileBefore(p, q) == p[1] < q[1] \/ (p[1] = q[1] /\ p[2] < q[2])

\* the coordinates of S in that order: the k-th is the one with k - 1 of S before it
SortCoords(S) ==
    [k \in 1..Cardinality(S) |->
        CHOOSE x \in S : Cardinality({ y \in S : TileBefore(y, x) }) = k - 1]

\* the keys of the tiles dict in insertion order
TilesInOrder == SortCoords(Tiles)

\* the tiles of S in that order
SortTiles(S) ==
    IF S \subseteq Tiles
    THEN LET in_S(t) == t \in S IN SelectSeq(TilesInOrder, in_S)
    ELSE SortCoords(S)

Reverse(s) == [i \in 1..Len(s) |-> s[Len(s) + 1 - i]]

\* the concatenation of the sequences ss[lo], ..., ss[hi]
RECURSIVE FlattenRange(_, _, _)
FlattenRange(ss, lo, hi) ==
    IF lo > hi THEN <<>>
    ELSE IF lo = hi THEN ss[lo]
    ELSE FlattenRange(ss, lo, (lo + hi) \div 2) \o FlattenRange(ss, (lo + hi) \div 2 + 1, hi)

Flatten(ss) == FlattenRange(ss, 1, Len(ss))

Range(s) == { s[i] : i \in DOMAIN s }

\* list(set(...)): the elements of a set in the iteration order of the run's hash
SetToList(S) == IF hash_order = "asc" THEN SortTiles(S) ELSE Reverse(SortTiles(S))

\* HexBoard.get_tile(q, r) is not None
HasTile(p) == p \in Tiles

\* tile.piece of the tile on p: NoPiece when the tile is empty (or p has no tile)
PieceAt(tl, p) == IF p \in DOMAIN tl THEN tl[p] ELSE NoPiece

\* tile.has_piece() of the tile on p
HasPiece(tl, p) == p \in DOMAIN tl

\* to_tile.piece = from_tile.piece, then from_tile.remove_piece()
Transfer(tl, from, to) ==
    [t \in (DOMAIN tl \cup {to}) \ {from} |-> IF t = to THEN tl[from] ELSE tl[t]]

\* tile.piece = pc on the tile on p
SetPiece(tl, p, pc) == [t \in DOMAIN tl \cup {p} |-> IF t = p THEN pc ELSE tl[t]]

-----------------------------------------------------------------------------
(* MoveGenerator (game.py) *)

white_pawn_starts ==
    { <<-4, 5>>, <<-3, 4>>, <<-2, 3>>, <<-1, 2>>, <<0, 1>>, <<1, 1>>, <<2, 1>>, <<3, 1>>, <<4, 1>> }
black_pawn_starts ==
    { <<4, -5>>, <<3, -4>>, <<2, -3>>, <<1, -2>>, <<0, -1>>, <<-1, -1>>, <<-2, -1>>, <<-3, -1>>, <<-4, -1>> }

forward_dir(color) == IF color = "white" THEN <<0, -1>> ELSE <<0, 1>>
capture_dirs(color) ==
    IF color = "white" THEN << <<-1, 0>>, <<1, -1>> >> ELSE << <<1, 0>>, <<-1, 1>> >>

orthogonal_dirs == << <<1, 0>>, <<-1, 0>>, <<0, 1>>, <<0, -1>>, <<1, -1>>, <<-1, 1>> >>
diagonal_dirs == << <<1, 1>>, <<-1, -1>>, <<2, -1>>, <<-2, 1>>, <<1, -2>>, <<-1, 2>> >>

perpendicular(d) ==
    CASE d = <<1, 0>> -> << <<0, 1>>, <<1, -1>> >>
      [] d = <<-1, 0>> -> << <<0, -1>>, <<-1, 1>> >>
      [] d = <<0, 1>> -> << <<-1, 1>>, <<1, 0>> >>
      [] d = <<0, -1>> -> << <<1, -1>>, <<-1, 0>> >>
      [] d = <<1, -1>> -> << <<1, 0>>, <<0, -1>> >>
      [] OTHER -> << <<-1, 0>>, <<0, 1>> >>

\* a landing square that may be empty or hold an enemy piece
LandOn(tl, p, color) ==
    IF HasTile(p) /\ (~HasPiece(tl, p) \/ tl[p].color # color) THEN <<p>> ELSE <<>>

get_pawn_moves_any_rank(tl, p, color) ==
    LET f == forward_dir(color)
        n1 == Add(p, f)
        n2 == Add(n1, f)
        pushes ==
            IF HasTile(n1) /\ ~HasPiece(tl, n1)
            THEN <<n1>> \o (IF HasTile(n2) /\ ~HasPiece(tl, n2) THEN <<n2>> ELSE <<>>)
            ELSE <<>>
        cap(d) ==
            LET c == Add(p, d)
            IN IF HasTile(c) /\ HasPiece(tl, c) /\ tl[c].color # color THEN <<c>> ELSE <<>>
    IN pushes \o cap(capture_dirs(color)[1]) \o cap(capture_dirs(color)[2])

get_pawn_moves(tl, p, color) ==
    LET is_starting_position ==
            IF color = "white" THEN p \in white_pawn_starts ELSE p \in black_pawn_starts
        f == forward_dir(color)
        n1 == Add(p, f)
        n2 == Add(n1, f)
        pushes ==
            IF HasTile(n1) /\ ~HasPiece(tl, n1)
            THEN <<n1>> \o (IF is_starting_position /\ HasTile(n2) /\ ~HasPiece(tl, n2)
                            THEN <<n2>> ELSE <<>>)
            ELSE <<>>
        cap(d) ==
            LET c == Add(p, d)
            IN IF HasTile(c) /\ HasPiece(tl, c) /\ tl[c].color # color THEN <<c>> ELSE <<>>
    IN pushes \o cap(capture_dirs(color)[1]) \o cap(capture_dirs(color)[2])

get_knight_moves_blocked(tl, p, color) ==
    Flatten([i \in 1..6 |->
        LET d == orthogonal_dirs[i]
            mid == Add(Add(p, d), d)
        IN IF HasPiece(tl, Add(p, d)) \/ HasPiece(tl, mid) THEN <<>>
           ELSE LandOn(tl, Add(mid, perpendicular(d)[1]), color)
                  \o LandOn(tl, Add(mid, perpendicular(d)[2]), color)])

get_knight_moves(tl, p, color) ==
    Flatten([i \in 1..6 |->
        LET d == orthogonal_dirs[i]
            mid == Add(Add(p, d), d)
        IN LandOn(tl, Add(mid, perpendicular(d)[1]), color)
             \o LandOn(tl, Add(mid, perpendicular(d)[2]), color)])

\* one direction of _get_sliding_moves, from square n on
RECURSIVE SlideFrom(_, _, _, _)
SlideFrom(tl, n, d, color) ==
    IF n \notin Tiles THEN <<>>
    ELSE IF ~HasPiece(tl, n) THEN <<n>> \o SlideFrom(tl, Add(n, d), d, color)
    ELSE IF tl[n].color # color THEN <<n>>
    ELSE <<>>

get_sliding_moves(tl, p, color, directions) ==
    Flatten([i \in DOMAIN directions |-> SlideFrom(tl, Add(p, directions[i]), directions[i], color)])

RECURSIVE BishopSlideFrom_through(_, _, _, _, _)
BishopSlideFrom_through(tl, n, d, color, target_color) ==
    IF n \notin Tiles THEN <<>>
    ELSE IF get_hex_color(n) # target_color THEN <<>>
    ELSE IF ~HasPiece(tl, n) \/ tl[n].color # color
         THEN <<n>> \o BishopSlideFrom_through(tl, Add(n, d), d, color, target_color)
    ELSE <<>>

\* one direction of _get_bishop_moves, from square n on
RECURSIVE BishopSlideFrom(_, _, _, _, _)
BishopSlideFrom(tl, n, d, color, target_color) ==
    IF n \notin Tiles THEN <<>>
    ELSE IF get_hex_color(n) # target_color THEN <<>>
    ELSE IF ~HasPiece(tl, n) THEN <<n>> \o BishopSlideFrom(tl, Add(n, d), d, color, target_color)
    ELSE IF tl[n].color # color THEN <<n>>
    ELSE <<>>

get_bishop_moves(tl, p, color) ==
    IF ~HasTile(p) THEN <<>>
    ELSE Flatten([i \in 1..6 |->
            BishopSlideFrom(tl, Add(p, diagonal_dirs[i]), diagonal_dirs[i], color, get_hex_color(p))])

\* a rook that lands on pieces of its own side and stops short of the other side's
get_rook_moves_onto_own(tl, p, color) ==
    get_sliding_moves(tl, p, IF color = "white" THEN "black" ELSE "white", orthogonal_dirs)

get_rook_moves(tl, p, color) == get_sliding_moves(tl, p, color, orthogonal_dirs)

get_queen_moves(tl, p, color) ==
    SetToList(Range(get_rook_moves(tl, p, color) \o get_bishop_moves(tl, p, color)))

get_king_moves(tl, p, color) ==
    IF ~HasTile(p) THEN <<>>
    ELSE Flatten([i \in 1..6 |-> LandOn(tl, Add(p, orthogonal_dirs[i]), color)])
           \o Flatten([i \in 1..6 |->
                LET n == Add(p, diagonal_dirs[i])
                IN IF HasTile(n) /\ get_hex_color(n) = get_hex_color(p)
                   THEN LandOn(tl, n, color) ELSE <<>>])

\* the generator of one piece kind
MovesOfKind(tl, p, color, name) ==
    CASE name = "pawn" -> get_pawn_moves(tl, p, color)
      [] name = "knight" -> get_knight_moves(tl, p, color)
      [] name = "bishop" -> get_bishop_moves(tl, p, color)
      [] name = "rook" -> get_rook_moves(tl, p, color)
      [] name = "queen" -> get_queen_moves(tl, p, color)
      [] name = "king" -> get_king_moves(tl, p, color)
      [] OTHER -> <<>>

\* a get_legal_moves that does not look at the side to move
get_legal_moves_any_turn(b, p) ==
    IF ~HasTile(p) THEN <<>>
    ELSE IF ~HasPiece(b.tiles, p) THEN <<>>
    ELSE MovesOfKind(b.tiles, p, b.tiles[p].color, b.tiles[p].name)

\* MoveGenerator.get_legal_moves: pseudo-legal destinations of the piece on p
get_legal_moves(b, p) ==
    IF ~HasTile(p) THEN <<>>
    ELSE IF ~HasPiece(b.tiles, p) THEN <<>>
    ELSE IF b.tiles[p].color # b.current_turn THEN <<>>
    ELSE MovesOfKind(b.tiles, p, b.tiles[p].color, b.tiles[p].name)

AttacksFrom_by_moves(tl, t, p) == p \in Range(MovesOfKind(tl, t, tl[t].color, tl[t].name))

\* does the piece on tile t attack square p (is_square_attacked, one iteration)
AttacksFrom(tl, t, p) ==
    IF tl[t].name = "pawn"
    THEN \E i \in 1..2 : Add(t, capture_dirs(tl[t].color)[i]) = p
    ELSE p \in Range(MovesOfKind(tl, t, tl[t].color, tl[t].name))

is_square_attacked(tl, p, by_color) ==
    \E t \in DOMAIN tl : tl[t].color = by_color /\ AttacksFrom(tl, t, p)

-----------------------------------------------------------------------------
(* MoveValidator (game.py) *)

\* first king of the colour in tile order, NoCoord when there is none
find_king(tl, color) ==
    LET ks == { t \in DOMAIN tl : tl[t] = Pc(color, "king") }
    IN IF ks = {} THEN NoCoord
       ELSE CHOOSE k \in ks : \A o \in ks : k = o \/ TileBefore(k, o)

is_in_check(tl, color) ==
    LET king_pos == find_king(tl, color)
    IN IF king_pos = NoCoord THEN FALSE
       ELSE is_square_attacked(tl, king_pos, Opp(color))

\* a simulation that never looks at the king
simulate_move_unchecked(tl, from, to) ==
    IF ~HasTile(from) \/ ~HasTile(to) THEN FALSE
    ELSE HasPiece(tl, from)

simulate_move_keep_source(tl, from, to) ==
    IF ~HasTile(from) \/ ~HasTile(to) THEN FALSE
    ELSE IF ~HasPiece(tl, from) THEN FALSE
    ELSE ~is_in_check(SetPiece(tl, to, tl[from]), tl[from].color)

\* MoveValidator.simulate_move: TRUE iff the move does not leave the mover's king
\* attacked; the tiles it changes are put back before it returns
simulate_move(tl, from, to) ==
    IF ~HasTile(from) \/ ~HasTile(to) THEN FALSE
    ELSE IF ~HasPiece(tl, from) THEN FALSE
    ELSE ~is_in_check(Transfer(tl, from, to), tl[from].color)

get_legal_moves_with_check(b, p) ==
    LET keep(m) == simulate_move(b.tiles, p, m)
    IN SelectSeq(get_legal_moves(b, p), keep)

has_any_legal_moves(b, color) ==
    \E t \in DOMAIN b.tiles :
        /\ b.tiles[t].color = color
        /\ get_legal_moves_with_check(b, t) # <<>>

is_checkmate(b, color) == is_in_check(b.tiles, color) /\ ~has_any_legal_moves(b, color)

is_stalemate(b, color) == ~is_in_check(b.tiles, color) /\ ~has_any_legal_moves(b, color)

get_game_status_check_first(b) ==
    IF is_in_check(b.tiles, b.current_turn) THEN "check"
    ELSE IF is_checkmate(b, b.current_turn) THEN "checkmate"
    ELSE IF is_stalemate(b, b.current_turn) THEN "stalemate"
    ELSE "active"

\* MoveValidator.get_game_status, HexBoard.get_game_status
get_game_status(b) ==
    IF is_checkmate(b, b.current_turn) THEN "checkmate"
    ELSE IF is_stalemate(b, b.current_turn) THEN "stalemate"
    ELSE IF is_in_check(b.tiles, b.current_turn) THEN "check"
    ELSE "active"

-----------------------------------------------------------------------------
(* HexBoard (hex_board.py) *)

move_piece_any_side(b, from, to) ==
    IF ~HasTile(from) \/ ~HasTile(to) THEN [ok |-> FALSE, board |-> b]
    ELSE IF ~HasPiece(b.tiles, from) \/ from = to THEN [ok |-> FALSE, board |-> b]
    ELSE [ok |-> TRUE,
          board |-> [b EXCEPT !.tiles = Transfer(b.tiles, from, to),
                              !.current_turn = Opp(b.current_turn)]]

move_piece_keep_turn(b, from, to) ==
    IF ~HasTile(from) \/ ~HasTile(to) THEN [ok |-> FALSE, board |-> b]
    ELSE IF ~HasPiece(b.tiles, from) \/ from = to THEN [ok |-> FALSE, board |-> b]
    ELSE IF b.tiles[from].color # b.current_turn THEN [ok |-> FALSE, board |-> b]
    ELSE [ok |-> TRUE, board |-> [b EXCEPT !.tiles = Transfer(b.tiles, from, to)]]

\* a move_piece that refuses to move onto an occupied tile
move_piece_onto_empty(b, from, to) ==
    IF ~HasTile(from) \/ ~HasTile(to) THEN [ok |-> FALSE, board |-> b]
    ELSE IF ~HasPiece(b.tiles, from) \/ from = to THEN [ok |-> FALSE, board |-> b]
    ELSE IF b.tiles[from].color # b.current_turn THEN [ok |-> FALSE, board |-> b]
    ELSE IF HasPiece(b.tiles, to) THEN [ok |-> FALSE, board |-> b]
    ELSE [ok |-> TRUE,
          board |-> [b EXCEPT !.tiles = Transfer(b.tiles, from, to),
                              !.current_turn = Opp(b.current_turn)]]

\* HexBoard.move_piece: [ok, board]
move_piece(b, from, to) ==
    IF ~HasTile(from) \/ ~HasTile(to) THEN [ok |-> FALSE, board |-> b]
    ELSE IF ~HasPiece(b.tiles, from) \/ from = to THEN [ok |-> FALSE, board |-> b]
    ELSE IF b.tiles[from].color # b.current_turn THEN [ok |-> FALSE, board |-> b]
    ELSE [ok |-> TRUE,
          board |-> [b EXCEPT !.tiles = Transfer(b.tiles, from, to),
                              !.current_turn = Opp(b.current_turn)]]

\* the promotion zone of a side: the tiles of the far edge, from which a pawn of that
\* side has no tile to advance to
PromotionZone(color) == { t \in Tiles : ~HasTile(Add(t, forward_dir(color))) }

-----------------------------------------------------------------------------
(* HexGeometry (used by evaluation.py) *)

distance_from_center(p) == (Abs(p[1]) + Abs(p[1] + p[2]) + Abs(p[2])) \div 2

distance_from_edge(p, size) == (size - 1) - distance_from_center(p)

get_file_centrality(q, size) == (size - 1) - Abs(q)

-----------------------------------------------------------------------------
(* Evaluator (evaluation.py) *)

pawn_pst(p, is_endgame) ==
    LET edge_dist == distance_from_edge(p, BOARD_SIZE)
        file_centrality == get_file_centrality(p[1], BOARD_SIZE)
        advancement_bonus ==
            IF is_endgame
            THEN edge_dist * 20 + (IF edge_dist >= 4 THEN (edge_dist - 3) * 80 ELSE 0)
            ELSE edge_dist * 10 + (IF edge_dist >= 4 THEN (edge_dist - 3) * 25 ELSE 0)
        centrality_bonus == file_centrality * 3
        starting_penalty == IF edge_dist = 0 THEN -20 ELSE 0
    IN starting_penalty + advancement_bonus + centrality_bonus

knight_pst(p, is_endgame) ==
    LET center_dist == distance_from_center(p)
        edge_dist == distance_from_edge(p, BOARD_SIZE)
        edge_penalty == IF edge_dist = 0 THEN -40 ELSE IF edge_dist = 1 THEN -15 ELSE 0
        endgame_penalty == IF is_endgame THEN -10 ELSE 0
    IN edge_dist * 15 + center_dist * (-8) + edge_penalty + endgame_penalty

bishop_pst(p, is_endgame) ==
    LET center_dist == distance_from_center(p)
        edge_dist == distance_from_edge(p, BOARD_SIZE)
        edge_penalty == IF edge_dist = 0 THEN -20 ELSE 0
        endgame_bonus == IF is_endgame THEN 5 ELSE 0
    IN (4 - center_dist) * 8 + edge_penalty + endgame_bonus

rook_pst(p, is_endgame) ==
    LET edge_dist == distance_from_edge(p, BOARD_SIZE)
        file_centrality == get_file_centrality(p[1], BOARD_SIZE)
        base == 5
        advancement ==
            IF edge_dist >= 4 THEN 35
            ELSE IF edge_dist >= 3 THEN 20
            ELSE IF edge_dist >= 2 THEN 10
            ELSE 0
        centrality_bonus == file_centrality * 2
    IN IF is_endgame
       THEN base + (advancement \div 2) + centrality_bonus + 10
       ELSE base + advancement + centrality_bonus

queen_pst(p, is_endgame) ==
    LET center_dist == distance_from_center(p)
        edge_dist == distance_from_edge(p, BOARD_SIZE)
        edge_penalty ==
            IF is_endgame THEN 0
            ELSE IF edge_dist = 0 THEN -20 ELSE IF edge_dist = 1 THEN -10 ELSE 0
        endgame_bonus == IF is_endgame THEN 10 ELSE 0
    IN (4 - center_dist) * 5 + edge_penalty + endgame_bonus

king_pst(p, is_endgame) ==
    LET center_dist == distance_from_center(p)
        edge_dist == distance_from_edge(p, BOARD_SIZE)
        safety_bonus == IF edge_dist <= 1 THEN 50 ELSE IF edge_dist = 2 THEN 20 ELSE -30
    IN IF is_endgame THEN (4 - center_dist) * 10 ELSE safety_bonus + center_dist * (-5)

pst_func(name, p, is_endgame) ==
    CASE name = "pawn" -> pawn_pst(p, is_endgame)
      [] name = "knight" -> knight_pst(p, is_endgame)
      [] name = "bishop" -> bishop_pst(p, is_endgame)
      [] name = "rook" -> rook_pst(p, is_endgame)
      [] name = "queen" -> queen_pst(p, is_endgame)
      [] name = "king" -> king_pst(p, is_endgame)
      [] OTHER -> 0

\* a blend with the two weights exchanged
get_pst_value_swapped(name, p, color, phase) ==
    IF name \notin Names THEN 0
    ELSE (pst_func(name, p, FALSE) * (MAX_PHASE - phase) + pst_func(name, p, TRUE) * phase)
            \div MAX_PHASE

\* PST.get_pst_value: middlegame and endgame values blended by phase
get_pst_value(name, p, color, phase) ==
    IF name \notin Names THEN 0
    ELSE (pst_func(name, p, FALSE) * phase + pst_func(name, p, TRUE) * (MAX_PHASE - phase))
            \div MAX_PHASE

\* sum of f[t] over the tiles of S
RECURSIVE SumRange(_, _, _, _)
SumRange(ts, f, lo, hi) ==
    IF lo > hi THEN 0
    ELSE IF lo = hi THEN f[ts[lo]]
    ELSE SumRange(ts, f, lo, (lo + hi) \div 2) + SumRange(ts, f, (lo + hi) \div 2 + 1, hi)

SumSeq(ts, f) == SumRange(ts, f, 1, Len(ts))

SumOver(S, f) == SumSeq(SortTiles(S), f)

\* the sum of the phase weights without the clamp
calculate_phase_unclamped(b) ==
    SumOver(DOMAIN b.tiles, [t \in DOMAIN b.tiles |-> PHASE_VALUES(b.tiles[t].name)])

calculate_phase(b) ==
    Min2(SumOver(DOMAIN b.tiles, [t \in DOMAIN b.tiles |-> PHASE_VALUES(b.tiles[t].name)]),
         MAX_PHASE)

\* an evaluation that adds the pieces of both colours
evaluate_unsigned(b) ==
    LET tl == b.tiles
        phase == calculate_phase(b)
        worth == [t \in DOMAIN tl |->
            PIECE_VALUES(tl[t].name) + get_pst_value(tl[t].name, t, tl[t].color, phase)]
        material == [t \in DOMAIN tl |->
            IF tl[t].name # "king" THEN PIECE_VALUES(tl[t].name) ELSE 0]
    IN <<SumOver(DOMAIN tl, worth), SumOver(DOMAIN tl, material), phase>>

\* an evaluation whose material total counts the kings
evaluate_kings_in_material(b) ==
    LET tl == b.tiles
        phase == calculate_phase(b)
        signed == [t \in DOMAIN tl |->
            LET piece_value ==
                    PIECE_VALUES(tl[t].name) + get_pst_value(tl[t].name, t, tl[t].color, phase)
            IN IF tl[t].color = "white" THEN piece_value ELSE -piece_value]
        material == [t \in DOMAIN tl |-> PIECE_VALUES(tl[t].name)]
    IN <<SumOver(DOMAIN tl, signed), SumOver(DOMAIN tl, material), phase>>

\* Evaluator.evaluate: <<score, total_material, phase>>
evaluate(b) ==
    LET tl == b.tiles
        phase == calculate_phase(b)
        signed == [t \in DOMAIN tl |->
            LET piece_value ==
                    PIECE_VALUES(tl[t].name) + get_pst_value(tl[t].name, t, tl[t].color, phase)
            IN IF tl[t].color = "white" THEN piece_value ELSE -piece_value]
        material == [t \in DOMAIN tl |->
            IF tl[t].name # "king" THEN PIECE_VALUES(tl[t].name) ELSE 0]
    IN <<SumOver(DOMAIN tl, signed), SumOver(DOMAIN tl, material), phase>>

-----------------------------------------------------------------------------
(* ChessEngine (engine.py) *)

\* float('inf'): larger than any evaluation; float arithmetic leaves it unchanged
PosInf == 1000000000
NegInf == -PosInf

\* x + d and x - d in float arithmetic
FAdd(x, d) == IF x = PosInf \/ x = NegInf THEN x ELSE x + d
FSub(x, d) == IF x = PosInf \/ x = NegInf THEN x ELSE x - d

snapshot_board(b) ==
    [pieces |-> b.tiles,
     state |-> [current_turn |-> b.current_turn,
                en_passant_target |-> b.en_passant_target,
                pending_promotion |-> b.pending_promotion,
                captured_pieces |-> b.captured_pieces]]

restore_board_keep_turn(b, snap) ==
    [b EXCEPT !.tiles = snap.pieces,
              !.en_passant_target = snap.state.en_passant_target,
              !.pending_promotion = snap.state.pending_promotion,
              !.captured_pieces = snap.state.captured_pieces]

restore_board(b, snap) ==
    [b EXCEPT !.tiles = snap.pieces,
              !.current_turn = snap.state.current_turn,
              !.en_passant_target = snap.state.en_passant_target,
              !.pending_promotion = snap.state.pending_promotion,
              !.captured_pieces = snap.state.captured_pieces]

evaluate_engine_position(b) ==
    IF engine_color = "white" THEN evaluate(b)[1] ELSE -evaluate(b)[1]

\* the key _order_moves sorts by
move_score(b, m, current_color) ==
    LET tl == b.tiles
        from == m[1]
        to == m[2]
        capture ==
            IF HasTile(to) /\ HasPiece(tl, to) /\ tl[to].color # current_color
                 /\ HasTile(from) /\ HasPiece(tl, from)
            THEN PIECE_VALUES(tl[to].name) * 10 - PIECE_VALUES(tl[from].name)
            ELSE 0
        center_dist == Abs(to[1]) + Abs(to[2]) + Abs(-to[1] - to[2])
    IN capture - center_dist

\* the place of each entry in a stable sort by descending key: behind the entries with
\* a greater key and the earlier entries with an equal key
SortRanks(keys) ==
    [i \in 1..Len(keys) |->
        1 + Cardinality({ j \in 1..Len(keys) :
                            keys[j] > keys[i] \/ (keys[j] = keys[i] /\ j < i) })]

\* a list of its own with the elements of s (sorted returns a new list)
AsList(s) == SubSeq(s, 1, Len(s))

SortDesc(moves, ranks) ==
    AsList([k \in 1..Len(ranks) |-> moves[CHOOSE i \in 1..Len(ranks) : ranks[i] = k]])

\* sorted(moves, key=move_score, reverse=True): stable, highest score first
order_moves(b, moves, current_color) ==
    SortDesc(moves, SortRanks([i \in DOMAIN moves |-> move_score(b, moves[i], current_color)]))

\* the legal moves <<from, to>> of the pieces of one colour, in tile order
collect_moves(b, color) ==
    LET own == SortTiles({ t \in DOMAIN b.tiles : b.tiles[t].color = color })
    IN Flatten([i \in 1..Len(own) |->
          LET ms == get_legal_moves_with_check(b, own[i])
          IN [j \in DOMAIN ms |-> <<own[i], ms[j]>>]])

\* the pending promotion, when there is one, resolved to a queen; the turn set to `turn`
auto_promote(b, turn) ==
    IF b.pending_promotion = NoCoord THEN b
    ELSE LET pp == b.pending_promotion
             at == <<pp[1], pp[2]>>
         IN [b EXCEPT !.tiles = IF HasTile(at) THEN SetPiece(b.tiles, at, Pc(pp[3], "queen"))
                                 ELSE b.tiles,
                      !.pending_promotion = NoCoord,
                      !.current_turn = turn]

\* a move applied in the search with the side to move left as it was
apply_in_search_same_side(b, m, snap) ==
    [auto_promote(move_piece(b, m[1], m[2]).board, snap.state.current_turn)
        EXCEPT !.current_turn = snap.state.current_turn]

\* move_piece and the promotion handling that follows it in the search loops
apply_in_search(b, m, snap) ==
    auto_promote(move_piece(b, m[1], m[2]).board,
                 IF snap.state.current_turn = "black" THEN "white" ELSE "black")

prune_always(alpha, beta) == TRUE

\* the cutoff test of both loops
prune(alpha, beta) == beta <= alpha

mate_score(depth, is_maximizing) ==
    IF is_maximizing THEN FAdd(NegInf, depth) ELSE FSub(PosInf, depth)

RECURSIVE minimax(_, _, _, _, _)
RECURSIVE minimax_range(_, _, _, _, _)

\* The state of the for loop of _minimax: the index i of the next move, the running
\* max_eval / min_eval (val), the board, the nodes counted, the window, and whether
\* the loop has hit its break.

\* the end of one iteration, r being what the recursive call returned: restore the
\* snapshot, update the running value and the window, break when beta <= alpha
minimax_after(st, is_maximizing, r) ==
    IF is_maximizing
    THEN [i |-> st.i + 1,
          val |-> Max2(st.val, r.val),
          board |-> restore_board(r.board, snapshot_board(st.board)),
          nodes |-> st.nodes + r.nodes,
          alpha |-> Max2(st.alpha, r.val), beta |-> st.beta,
          cut |-> prune(Max2(st.alpha, r.val), st.beta)]
    ELSE [i |-> st.i + 1,
          val |-> Min2(st.val, r.val),
          board |-> restore_board(r.board, snapshot_board(st.board)),
          nodes |-> st.nodes + r.nodes,
          alpha |-> st.alpha, beta |-> Min2(st.beta, r.val),
          cut |-> prune(st.alpha, Min2(st.beta, r.val))]

\* the iterations of the for loop of _minimax from st.i up to hi, in order, by halves:
\* none once the loop has broken, one iteration on move moves[hi] when st.i = hi
minimax_range(st, moves, hi, depth, is_maximizing) ==
    CASE st.cut -> st
      [] ~st.cut /\ st.i > hi -> st
      [] ~st.cut /\ st.i = hi ->
           minimax_after(st, is_maximizing,
                         minimax(apply_in_search(st.board, moves[hi], snapshot_board(st.board)),
                                 depth - 1, ~is_maximizing, st.alpha, st.beta))
      [] OTHER ->
           minimax_range(minimax_range(st, moves, (st.i + hi) \div 2, depth, is_maximizing),
                         moves, hi, depth, is_maximizing)

\* what _minimax returns when its loop ends in state st: [val, board, nodes]
minimax_result(st) == [val |-> st.val, board |-> st.board, nodes |-> st.nodes]

\* the for loop of _minimax over the ordered moves, from its initial state st
minimax_loop(st, moves, depth, is_maximizing) ==
    minimax_result(minimax_range(st, moves, Len(moves), depth, is_maximizing))

\* _minimax below the depth test, all_moves being the legal moves of the side to move
minimax_moves(b, depth, is_maximizing, alpha, beta, all_moves) ==
    IF all_moves = <<>>
    THEN [val |-> IF is_in_check(b.tiles, b.current_turn)
                  THEN mate_score(depth, is_maximizing)
                  ELSE evaluate_engine_position(b),
          board |-> b, nodes |-> 1]
    ELSE minimax_loop([i |-> 1,
                       val |-> IF is_maximizing THEN NegInf ELSE PosInf,
                       board |-> b, nodes |-> 1,
                       alpha |-> alpha, beta |-> beta, cut |-> FALSE],
                      order_moves(b, all_moves, b.current_turn), depth, is_maximizing)

\* ChessEngine._minimax on board b: [val, board, nodes]
minimax(b, depth, is_maximizing, alpha, beta) ==
    IF depth = 0 THEN [val |-> evaluate_engine_position(b), board |-> b, nodes |-> 1]
    ELSE minimax_moves(b, depth, is_maximizing, alpha, beta, collect_moves(b, b.current_turn))

\* find_best_move's result: None, or the move with its value
NoMove == [found |-> FALSE, from |-> NoCoord, to |-> NoCoord, value |-> 0]
BestMove(m, v) == [found |-> TRUE, from |-> m[1], to |-> m[2], value |-> v]

\* The state of the for loop of find_best_move: the index i of the next move,
\* best_move (best), best_value, the board and the nodes counted.

\* the end of one iteration, r being what _minimax returned for move m: restore the
\* snapshot, and keep the move when its value is strictly larger
root_after(st, m, r) ==
    [i |-> st.i + 1,
     best |-> IF r.val > st.best_value THEN BestMove(m, r.val) ELSE st.best,
     best_value |-> IF r.val > st.best_value THEN r.val ELSE st.best_value,
     board |-> restore_board(r.board, snapshot_board(st.board)),
     nodes |-> st.nodes + r.nodes]

\* the iterations of the for loop of find_best_move from st.i up to hi, in order, by
\* halves: one iteration on move moves[hi] when st.i = hi
RECURSIVE root_range(_, _, _)
root_range(st, moves, hi) ==
    CASE st.i > hi -> st
      [] st.i = hi ->
           root_after(st, moves[hi],
                      minimax(apply_in_search(st.board, moves[hi], snapshot_board(st.board)),
                              search_depth - 1, FALSE, NegInf, PosInf))
      [] OTHER -> root_range(root_range(st, moves, (st.i + hi) \div 2), moves, hi)

\* the for loop of find_best_move over all the ordered moves: [best, best_value, board, nodes]
root_loop(b, moves) ==
    root_range([i |-> 1, best |-> NoMove, best_value |-> NegInf, board |-> b, nodes |-> 0],
               moves, Len(moves))

\* ChessEngine.find_best_move on board b: [best, best_value, board, nodes]
find_best_move(b) ==
    root_loop(b, order_moves(b, collect_moves(b, engine_color), engine_color))

\* play_best_move's result: None, or the summary of the move it made
NoPlay == [success |-> FALSE, from |-> NoCoord, to |-> NoCoord, estimated_value |-> 0,
           final_eval_score |-> 0, total_material |-> 0, phase |-> 0]

\* the summary play_best_move returns, ev being Evaluator.evaluate of the final board
play_summary(best, done, ev) ==
    [result |-> [success |-> TRUE, from |-> best.from, to |-> best.to,
                 estimated_value |-> best.value,
                 final_eval_score |-> ev[1], total_material |-> ev[2], phase |-> ev[3]],
     board |-> done]

\* play_best_move after its move_piece call returned mv
play_moved(best, mv) ==
    IF ~mv.ok THEN [result |-> NoPlay, board |-> mv.board]
    ELSE play_summary(best, auto_promote(mv.board, Opp(mv.board.current_turn)),
                      evaluate(auto_promote(mv.board, Opp(mv.board.current_turn))))

\* play_best_move after find_best_move returned f
play_found(f) ==
    IF ~f.best.found THEN [result |-> NoPlay, board |-> f.board]
    ELSE play_moved(f.best, move_piece(f.board, f.best.from, f.best.to))

\* ChessEngine.play_best_move on board b: [result, board]
play_best_move(b) == play_found(find_best_move(b))

-----------------------------------------------------------------------------
(* Positions *)

\* place_piece for every coordinate in the domain of f (off-board ones are refused)
PlaceAll(f) == [t \in DOMAIN f \cap Tiles |-> f[t]]

\* a board as setup leaves it: the given occupants, nothing pending, nothing captured
NewBoard(f, turn) ==
    [tiles |-> PlaceAll(f),
     current_turn |-> turn,
     en_passant_target |-> NoCoord,
     pending_promotion |-> NoCoord,
     captured_pieces |-> [white |-> <<>>, black |-> <<>>]]

\* main before its loop is entered: engine_board is a HexBoard of its own, no task, no
\* selection, an empty history
UiIdle ==
    /\ engine_board = NewBoard(<<>>, "white")
    /\ shares_tiles = FALSE
    /\ engine_thinking = FALSE
    /\ tasks = <<>>
    /\ selected_tile = NoCoord
    /\ dragging = FALSE
    /\ legal_moves = <<>>
    /\ history = <<>>
    /\ flip_locked = FALSE
    /\ flipped = FALSE

\* rook and king against a cornered king: mate and stalemate are one move away
FixMate ==
    NewBoard(<<5, -5>> :> Pc("black", "king") @@ <<3, -3>> :> Pc("white", "king")
               @@ <<3, -4>> :> Pc("white", "rook"), "white")

\* a black rook pinned on the king's file by a white rook, a knight beside it
FixPin ==
    NewBoard(<<1, -5>> :> Pc("black", "king") @@ <<1, -3>> :> Pc("black", "rook")
               @@ <<2, -5>> :> Pc("black", "knight") @@ <<1, 0>> :> Pc("white", "rook")
               @@ <<1, 4>> :> Pc("white", "king"), "black")

\* pawns on a starting square, beside it, and one step from the far edge
FixPawnTiles ==
    <<1, 4>> :> Pc("white", "king") @@ <<1, -5>> :> Pc("black", "king")
      @@ <<1, 1>> :> Pc("white", "pawn") @@ <<2, -1>> :> Pc("black", "pawn")
      @@ <<-3, -1>> :> Pc("white", "pawn") @@ <<3, 1>> :> Pc("black", "pawn")

InitBoards ==
    { FixMate, FixPin, NewBoard(FixPawnTiles, "white"), NewBoard(FixPawnTiles, "black") }

\* the black king's only move walks into a rook mate
FixForcedMate ==
    NewBoard(<<1, -5>> :> Pc("black", "king") @@ <<1, -3>> :> Pc("white", "king")
               @@ <<3, -4>> :> Pc("white", "rook"), "black")

\* a black pawn that can take a rook standing on the far edge
FixPromo ==
    NewBoard(<<0, -5>> :> Pc("black", "king") @@ <<-4, 5>> :> Pc("white", "king")
               @@ <<2, 2>> :> Pc("black", "pawn") @@ <<3, 2>> :> Pc("white", "rook"), "black")

SearchBoards == InitBoards \cup {FixForcedMate, FixPromo}

-----------------------------------------------------------------------------
(* Bounds *)

MaxMoves == 2
MaxDepth == 3

\* coordinates without a tile, and inputs of direct move_piece calls
OffBoard == <<6, 0>>
ProbeCalls ==
    { <<OffBoard, <<0, 0>> >>, << <<1, 1>>, OffBoard>>, << <<0, 0>>, <<1, 1>> >>,
      << <<1, 1>>, <<1, 1>> >>, << <<1, -5>>, <<1, -4>> >>, << <<1, 1>>, <<1, -1>> >> }

-----------------------------------------------------------------------------
(* The game: moves applied to the board *)

NoOp == [op |-> "none", from |-> NoCoord, to |-> NoCoord, piece |-> NoPiece, turn |-> "none"]

Init ==
    /\ board \in InitBoards
    /\ hash_order \in {"asc", "desc"}
    /\ ret = "none"
    /\ last = NoOp
    /\ movers = <<>>
    /\ all_legal = TRUE
    /\ engine_color = "black"
    /\ search_depth = COMPUTATION_DEPTH
    /\ best_move = NoMove
    /\ played = NoPlay
    /\ pre = board
    /\ out = <<>>
    /\ stack = <<>>
    /\ nodes_searched = 0
    /\ UiIdle

\* board.move_piece(from, to) and the bookkeeping of the call
DoMovePiece(from, to, legal) ==
    LET r == move_piece(board, from, to)
    IN /\ board' = r.board
       /\ ret' = IF r.ok THEN "true" ELSE "false"
       /\ last' = [op |-> "move_piece", from |-> from, to |-> to,
                   piece |-> PieceAt(board.tiles, from), turn |-> board.current_turn]
       /\ movers' = IF r.ok THEN Append(movers, board.tiles[from].color) ELSE movers
       /\ all_legal' = (all_legal /\ (r.ok => legal))
       /\ UNCHANGED <<hash_order, engine_color, search_depth, best_move, played, pre, out, descent_vars, ui_vars>>

\* main: a piece dropped on one of its legal destinations
UserMove ==
    /\ Len(movers) < MaxMoves
    /\ \E from \in DOMAIN board.tiles :
         \E to \in Range(get_legal_moves_with_check(board, from)) : DoMovePiece(from, to, TRUE)

\* move_piece called directly with arbitrary coordinates
MovePieceCall ==
    /\ Len(movers) < MaxMoves
    /\ \E c \in ProbeCalls :
         DoMovePiece(c[1], c[2], c[2] \in Range(get_legal_moves_with_check(board, c[1])))

Next == UserMove \/ MovePieceCall

Spec == Init /\ [][Next]_vars

-----------------------------------------------------------------------------
(* The engine: searches and engine moves on the board it was constructed with *)

InitSearch ==
    /\ board \in SearchBoards
    /\ hash_order \in {"asc", "desc"}
    /\ ret = "none"
    /\ last = NoOp
    /\ movers = <<>>
    /\ all_legal = TRUE
    /\ engine_color \in Colors
    /\ search_depth \in 1..MaxDepth
    /\ best_move = NoMove
    /\ played = NoPlay
    /\ pre = board
    /\ out = <<>>
    /\ stack = <<>>
    /\ nodes_searched = 0
    /\ UiIdle

\* the bookkeeping of a find_best_move call that returned r
FindBestMoveReturns(r) ==
    /\ board' = r.board
    /\ best_move' = r.best
    /\ pre' = board
    /\ last' = [NoOp EXCEPT !.op = "find_best_move", !.turn = board.current_turn]
    /\ ret' = IF r.best.found THEN "move" ELSE "null"
    /\ UNCHANGED <<hash_order, movers, all_legal, engine_color, search_depth, played, out, descent_vars, ui_vars>>

\* chess_engine.find_best_move()
FindBestMove ==
    /\ last.op = "none"
    /\ FindBestMoveReturns(find_best_move(board))

\* the bookkeeping of a play_best_move call that returned r
PlayBestMoveReturns(r) ==
    /\ board' = r.board
    /\ played' = r.result
    /\ pre' = board
    /\ last' = [op |-> "play_best_move", from |-> r.result.from, to |-> r.result.to,
                piece |-> PieceAt(board.tiles, r.result.from), turn |-> board.current_turn]
    /\ ret' = IF r.result.success THEN "move" ELSE "null"
    /\ movers' = IF r.result.success THEN Append(movers, board.current_turn) ELSE movers
    /\ UNCHANGED <<hash_order, all_legal, engine_color, search_depth, best_move, out, descent_vars, ui_vars>>

\* chess_engine.play_best_move()
PlayBestMove ==
    /\ last.op = "none"
    /\ PlayBestMoveReturns(play_best_move(board))

NextSearch == FindBestMove \/ PlayBestMove

SpecSearch == InitSearch /\ [][NextSearch]_vars

-----------------------------------------------------------------------------
(* The search below the root: _minimax called on a board *)

\* the rook has given mate to the cornered king
FixMated ==
    NewBoard(<<5, -5>> :> Pc("black", "king") @@ <<3, -3>> :> Pc("white", "king")
               @@ <<4, -4>> :> Pc("white", "rook"), "black")

\* the rook has left the cornered king without a move and without a check
FixStalemated ==
    NewBoard(<<5, -5>> :> Pc("black", "king") @@ <<3, -3>> :> Pc("white", "king")
               @@ <<2, -4>> :> Pc("white", "rook"), "black")

NodeBoards == { FixMated, FixStalemated, FixMate, FixForcedMate }

InitNode ==
    /\ board \in NodeBoards
    /\ hash_order \in {"asc", "desc"}
    /\ ret = "none"
    /\ last = NoOp
    /\ movers = <<>>
    /\ all_legal = TRUE
    /\ engine_color \in Colors
    /\ search_depth \in 1..MaxDepth
    /\ best_move = NoMove
    /\ played = NoPlay
    /\ pre = board
    /\ out = <<>>
    /\ stack = <<>>
    /\ nodes_searched = 0
    /\ UiIdle

\* the bookkeeping of a _minimax call that returned r: out keeps the arguments and the value
MinimaxReturns(depth, is_maximizing, r) ==
    /\ board' = r.board
    /\ out' = [depth |-> depth, is_maximizing |-> is_maximizing, val |-> r.val]
    /\ pre' = board
    /\ last' = [NoOp EXCEPT !.op = "_minimax", !.turn = board.current_turn]
    /\ UNCHANGED <<hash_order, ret, movers, all_legal, engine_color, search_depth,
                   best_move, played, descent_vars, ui_vars>>

\* chess_engine._minimax(depth, is_maximizing) with the full window
Minimax ==
    /\ last.op = "none"
    /\ \E is_maximizing \in BOOLEAN :
         MinimaxReturns(search_depth, is_maximizing,
                        minimax(board, search_depth, is_maximizing, NegInf, PosInf))

NextNode == Minimax

SpecNode == InitNode /\ [][NextNode]_vars

-----------------------------------------------------------------------------
(* The generators: pieces placed on an empty board, then the generators and
   is_square_attacked called with arbitrary coordinates and colours *)

MaxPieces == 2

\* HexBoard.place_piece
place_piece(b, p, pc) ==
    IF HasTile(p) THEN [ok |-> TRUE, board |-> [b EXCEPT !.tiles = SetPiece(b.tiles, p, pc)]]
    ELSE [ok |-> FALSE, board |-> b]

\* where pieces are placed: a white starting square, the tiles ahead of it and beside
\* them, and a tile behind it on the same diagonal
PlaceTiles == { <<1, 1>>, <<1, 0>>, <<1, -1>>, <<0, 1>>, <<2, 0>>, <<2, 2>> }
GenPieces ==
    { Pc("white", "pawn"), Pc("black", "pawn"), Pc("white", "bishop"), Pc("black", "knight") }

\* the coordinates the generators are called with
CallTiles ==
    { <<0, 0>>, <<1, 1>>, <<1, 0>>, <<1, -1>>, <<1, -2>>, <<2, 0>>, <<0, -5>>, <<5, -5>>,
      OffBoard }

EmptyBoard == NewBoard(<<>>, "white")

InitGen ==
    /\ board = EmptyBoard
    /\ hash_order \in {"asc", "desc"}
    /\ ret = "none"
    /\ last = NoOp
    /\ movers = <<>>
    /\ all_legal = TRUE
    /\ engine_color = "black"
    /\ search_depth = COMPUTATION_DEPTH
    /\ best_move = NoMove
    /\ played = NoPlay
    /\ pre = board
    /\ out = <<>>
    /\ stack = <<>>
    /\ nodes_searched = 0
    /\ UiIdle

\* the bookkeeping of a call that leaves the board alone and returned r; one call is
\* followed per position
Returned(op, p, color, r) ==
    /\ last.op \in {"none", "place_piece"}
    /\ out' = r
    /\ last' = [op |-> op, from |-> p, to |-> NoCoord, piece |-> PieceAt(board.tiles, p),
                turn |-> color]
    /\ UNCHANGED <<board, hash_order, ret, movers, all_legal, engine_color, search_depth,
                   best_move, played, pre, descent_vars, ui_vars>>

\* board.place_piece(q, r, color, name)
PlacePiece ==
    /\ Cardinality(DOMAIN board.tiles) < MaxPieces
    /\ \E p \in PlaceTiles, pc \in GenPieces :
         /\ board' = place_piece(board, p, pc).board
         /\ last' = [op |-> "place_piece", from |-> p, to |-> NoCoord, piece |-> pc,
                     turn |-> board.current_turn]
         /\ out' = place_piece(board, p, pc).ok
         /\ UNCHANGED <<hash_order, ret, movers, all_legal, engine_color, search_depth,
                        best_move, played, pre, descent_vars, ui_vars>>

GetPawnMoves ==
    \E p \in CallTiles, c \in Colors :
        Returned("get_pawn_moves", p, c, get_pawn_moves(board.tiles, p, c))

GetKnightMoves ==
    \E p \in CallTiles, c \in Colors :
        Returned("get_knight_moves", p, c, get_knight_moves(board.tiles, p, c))

GetBishopMoves ==
    \E p \in CallTiles, c \in Colors :
        Returned("get_bishop_moves", p, c, get_bishop_moves(board.tiles, p, c))

IsSquareAttacked ==
    \E p \in CallTiles, c \in Colors :
        Returned("is_square_attacked", p, c, is_square_attacked(board.tiles, p, c))

GetRookMoves ==
    \E p \in CallTiles, c \in Colors :
        Returned("get_rook_moves", p, c, get_rook_moves(board.tiles, p, c))

GetQueenMoves ==
    \E p \in CallTiles, c \in Colors :
        Returned("get_queen_moves", p, c, get_queen_moves(board.tiles, p, c))

GetKingMoves ==
    \E p \in CallTiles, c \in Colors :
        Returned("get_king_moves", p, c, get_king_moves(board.tiles, p, c))

NextGen ==
    \/ PlacePiece
    \/ GetPawnMoves
    \/ GetKnightMoves
    \/ GetBishopMoves
    \/ GetRookMoves
    \/ GetQueenMoves
    \/ GetKingMoves
    \/ IsSquareAttacked

SpecGen == InitGen /\ [][NextGen]_vars

-----------------------------------------------------------------------------
(* The evaluator: the starting position, the positions one move away from it and the
   positions made by placing further pieces, with evaluate and calculate_phase called on
   them *)

MaxEvalMoves == 1
MaxExtra == 2

\* the pieces setup_initial_board places
StartTiles ==
    <<1, 4>> :> Pc("white", "king") @@ <<-1, 5>> :> Pc("white", "queen")
      @@ <<3, 2>> :> Pc("white", "rook") @@ <<-3, 5>> :> Pc("white", "rook")
      @@ <<2, 3>> :> Pc("white", "knight") @@ <<-2, 5>> :> Pc("white", "knight")
      @@ <<0, 5>> :> Pc("white", "bishop") @@ <<0, 4>> :> Pc("white", "bishop")
      @@ <<0, 3>> :> Pc("white", "bishop")
      @@ [t \in white_pawn_starts |-> Pc("white", "pawn")]
      @@ <<1, -5>> :> Pc("black", "king") @@ <<-1, -4>> :> Pc("black", "queen")
      @@ <<3, -5>> :> Pc("black", "rook") @@ <<-3, -2>> :> Pc("black", "rook")
      @@ <<2, -5>> :> Pc("black", "knight") @@ <<-2, -3>> :> Pc("black", "knight")
      @@ <<0, -5>> :> Pc("black", "bishop") @@ <<0, -4>> :> Pc("black", "bishop")
      @@ <<0, -3>> :> Pc("black", "bishop")
      @@ [t \in black_pawn_starts |-> Pc("black", "pawn")]

\* the board after setup_initial_board
setup_initial_board == NewBoard(StartTiles, "white")

\* further pieces and where they are placed: the centre, a corner, a tile beside the
\* centre and the tile of a white rook
EvalTiles == { <<0, 0>>, <<5, -5>>, <<1, -1>>, <<3, 2>> }
EvalPieces ==
    { Pc("white", "queen"), Pc("black", "queen"), Pc("black", "knight"), Pc("white", "pawn") }

InitEval ==
    /\ board \in { setup_initial_board, EmptyBoard }
    /\ hash_order = "asc"
    /\ ret = "none"
    /\ last = NoOp
    /\ movers = <<>>
    /\ all_legal = TRUE
    /\ engine_color = "black"
    /\ search_depth = COMPUTATION_DEPTH
    /\ best_move = NoMove
    /\ played = NoPlay
    /\ pre = board
    /\ out = <<>>
    /\ stack = <<>>
    /\ nodes_searched = 0
    /\ UiIdle

\* a piece moved to one of its legal destinations, as the first thing done
EvalMove ==
    /\ last.op = "none"
    /\ Len(movers) < MaxEvalMoves
    /\ \E from \in DOMAIN board.tiles :
         \E to \in Range(get_legal_moves_with_check(board, from)) : DoMovePiece(from, to, TRUE)

\* board.place_piece(q, r, color, name) of a further piece
EvalPlace ==
    /\ last.op \in {"none", "place_piece"}
    /\ Cardinality(DOMAIN board.tiles) < Cardinality(DOMAIN pre.tiles) + MaxExtra
    /\ \E p \in EvalTiles, pc \in EvalPieces :
         /\ board' = place_piece(board, p, pc).board
         /\ last' = [op |-> "place_piece", from |-> p, to |-> NoCoord, piece |-> pc,
                     turn |-> board.current_turn]
         /\ out' = place_piece(board, p, pc).ok
         /\ UNCHANGED <<hash_order, ret, movers, all_legal, engine_color, search_depth,
                        best_move, played, pre, descent_vars, ui_vars>>

\* the bookkeeping of an evaluator call that returned r
Evaluated(op, r) ==
    /\ last.op \in {"none", "move_piece", "place_piece"}
    /\ out' = r
    /\ last' = [NoOp EXCEPT !.op = op, !.turn = board.current_turn]
    /\ UNCHANGED <<board, hash_order, ret, movers, all_legal, engine_color, search_depth,
                   best_move, played, pre, descent_vars, ui_vars>>

\* Evaluator.evaluate(board)
Evaluate == Evaluated("evaluate", evaluate(board))

\* Evaluator.calculate_phase(board)
CalculatePhase == Evaluated("calculate_phase", calculate_phase(board))

NextEval == EvalMove \/ EvalPlace \/ Evaluate \/ CalculatePhase

SpecEval == InitEval /\ [][NextEval]_vars

-----------------------------------------------------------------------------
(* find_best_move followed call by call: every _minimax call in progress has a frame on
   the stack, with its arguments and its local variables *)

MaxPlies == 2
MaxFrames == 5

\* the frame of find_best_move on board b: the ordered moves of the engine side, the index
\* i of the next one, best_move and best_value
root_frame(b) ==
    [fn |-> "find_best_move", depth |-> search_depth, is_maximizing |-> TRUE,
     current_turn |-> engine_color,
     moves |-> order_moves(b, collect_moves(b, engine_color), engine_color),
     i |-> 1, val |-> NegInf, alpha |-> NegInf, beta |-> PosInf, cut |-> FALSE,
     best |-> NoMove, snap |-> snapshot_board(b)]

\* the frame of _minimax(depth, is_maximizing, alpha, beta) entered on board b: at depth 0
\* no move is collected
node_frame(b, depth, is_maximizing, alpha, beta) ==
    [fn |-> "_minimax", depth |-> depth, is_maximizing |-> is_maximizing,
     current_turn |-> b.current_turn,
     moves |-> IF depth = 0 THEN <<>>
               ELSE order_moves(b, collect_moves(b, b.current_turn), b.current_turn),
     i |-> 1, val |-> IF is_maximizing THEN NegInf ELSE PosInf,
     alpha |-> alpha, beta |-> beta, cut |-> FALSE,
     best |-> NoMove, snap |-> snapshot_board(b)]

\* the call frame f makes for its next move, the move having been applied and b being the
\* board after it: find_best_move calls _minimax(search_depth - 1, False), _minimax calls
\* _minimax(depth - 1, not is_maximizing, alpha, beta)
child_frame(f, b) ==
    IF f.fn = "find_best_move"
    THEN node_frame(b, f.depth - 1, FALSE, NegInf, PosInf)
    ELSE node_frame(b, f.depth - 1, ~f.is_maximizing, f.alpha, f.beta)

\* the for loop of frame f is over, or was never entered
frame_done(f) ==
    \/ f.fn = "_minimax" /\ f.depth = 0
    \/ f.i > Len(f.moves)
    \/ f.cut

\* what the _minimax call of frame f returns, b being the board it was entered with
frame_value(f, b) ==
    IF f.depth = 0 THEN evaluate_engine_position(b)
    ELSE IF f.moves = <<>>
         THEN IF is_in_check(b.tiles, f.current_turn)
              THEN mate_score(f.depth, f.is_maximizing)
              ELSE evaluate_engine_position(b)
         ELSE f.val

\* frame f after the call for its move f.moves[f.i] returned v
frame_after(f, v) ==
    IF f.fn = "find_best_move"
    THEN [f EXCEPT !.i = f.i + 1,
                   !.best = IF v > f.val THEN BestMove(f.moves[f.i], v) ELSE f.best,
                   !.val = IF v > f.val THEN v ELSE f.val]
    ELSE IF f.is_maximizing
    THEN [f EXCEPT !.i = f.i + 1,
                   !.val = Max2(f.val, v),
                   !.alpha = Max2(f.alpha, v),
                   !.cut = prune(Max2(f.alpha, v), f.beta)]
    ELSE [f EXCEPT !.i = f.i + 1,
                   !.val = Min2(f.val, v),
                   !.beta = Min2(f.beta, v),
                   !.cut = prune(f.alpha, Min2(f.beta, v))]

Top == stack[Len(stack)]

ReplaceTop(f) == [stack EXCEPT ![Len(stack)] = f]

InitDescent ==
    /\ board \in SearchBoards
    /\ hash_order = "asc"
    /\ ret = "none"
    /\ last = NoOp
    /\ movers = <<>>
    /\ all_legal = TRUE
    /\ engine_color \in Colors
    /\ search_depth \in 0..MaxPlies
    /\ best_move = NoMove
    /\ played = NoPlay
    /\ pre = board
    /\ out = <<>>
    /\ stack = <<>>
    /\ nodes_searched = 0
    /\ UiIdle

\* chess_engine.find_best_move() is entered
SearchEnters ==
    /\ last.op = "none"
    /\ stack = <<>>
    /\ stack' = <<root_frame(board)>>
    /\ nodes_searched' = 0
    /\ pre' = board
    /\ last' = [NoOp EXCEPT !.op = "searching", !.turn = board.current_turn]
    /\ UNCHANGED <<board, hash_order, ret, movers, all_legal, engine_color, search_depth,
                   best_move, played, out, ui_vars>>

\* the frame on top takes its next move: snapshot, move_piece, promotion handling, and
\* the _minimax call is entered
SearchCalls ==
    /\ stack # <<>>
    /\ ~frame_done(Top)
    /\ Len(stack) < MaxFrames
    /\ LET snap == snapshot_board(board)
           after == apply_in_search(board, Top.moves[Top.i], snap)
       IN /\ board' = after
          /\ stack' = Append(ReplaceTop([Top EXCEPT !.snap = snap]), child_frame(Top, after))
    /\ nodes_searched' = nodes_searched + 1
    /\ UNCHANGED <<hash_order, ret, last, movers, all_legal, engine_color, search_depth,
                   best_move, played, pre, out, ui_vars>>

\* the _minimax call on top returns to its caller, which restores its snapshot and
\* updates its running values
SearchReturns ==
    /\ Len(stack) >= 2
    /\ frame_done(Top)
    /\ LET caller == stack[Len(stack) - 1]
       IN /\ stack' = [SubSeq(stack, 1, Len(stack) - 1) EXCEPT
                          ![Len(stack) - 1] = frame_after(caller, frame_value(Top, board))]
          /\ board' = restore_board(board, caller.snap)
    /\ UNCHANGED <<hash_order, ret, last, movers, all_legal, engine_color, search_depth,
                   best_move, played, pre, out, nodes_searched, ui_vars>>

\* find_best_move returns best_move
SearchFinishes ==
    /\ Len(stack) = 1
    /\ frame_done(Top)
    /\ best_move' = Top.best
    /\ ret' = IF Top.best.found THEN "move" ELSE "null"
    /\ last' = [NoOp EXCEPT !.op = "find_best_move", !.turn = board.current_turn]
    /\ stack' = <<>>
    /\ UNCHANGED <<board, hash_order, movers, all_legal, engine_color, search_depth,
                   played, pre, out, nodes_searched, ui_vars>>

NextDescent == SearchEnters \/ SearchCalls \/ SearchReturns \/ SearchFinishes

SpecDescent == InitDescent /\ [][NextDescent]_vars

-----------------------------------------------------------------------------
(* The piece-square tables: get_pst_value called for a piece, a tile and a phase *)

InitPst ==
    /\ board = EmptyBoard
    /\ hash_order = "asc"
    /\ ret = "none"
    /\ last = NoOp
    /\ movers = <<>>
    /\ all_legal = TRUE
    /\ engine_color = "black"
    /\ search_depth = COMPUTATION_DEPTH
    /\ best_move = NoMove
    /\ played = NoPlay
    /\ pre = board
    /\ out = <<>>
    /\ stack = <<>>
    /\ nodes_searched = 0
    /\ UiIdle

\* PST.get_pst_value(name, q, r, color, phase): out keeps the phase and the value
GetPstValue ==
    /\ last.op = "none"
    /\ \E name \in Names, p \in Tiles, color \in Colors, phase \in 0..MAX_PHASE :
         /\ out' = [phase |-> phase, value |-> get_pst_value(name, p, color, phase)]
         /\ last' = [NoOp EXCEPT !.op = "get_pst_value", !.from = p,
                                   !.piece = Pc(color, name)]
    /\ UNCHANGED <<board, hash_order, ret, movers, all_legal, engine_color, search_depth,
                   best_move, played, pre, descent_vars, ui_vars>>

NextPst == GetPstValue

SpecPst == InitPst /\ [][NextPst]_vars

-----------------------------------------------------------------------------
(* A game from the starting position, every move taken from get_legal_moves_with_check *)

MaxGamePlies == 4

\* the destinations tried when the side to move is not in check: they let a knight and a
\* bishop reach the tiles from which they check a king that has stepped forward
GameTiles ==
    { <<0, 2>>, <<1, -4>>, <<2, -4>>, <<-2, 2>>, <<1, -1>>, <<-5, 1>>, <<-3, 0>>, <<0, -4>> }

InitGame ==
    /\ board = setup_initial_board
    /\ hash_order = "asc"
    /\ ret = "none"
    /\ last = NoOp
    /\ movers = <<>>
    /\ all_legal = TRUE
    /\ engine_color = "black"
    /\ search_depth = COMPUTATION_DEPTH
    /\ best_move = NoMove
    /\ played = NoPlay
    /\ pre = board
    /\ out = <<>>
    /\ stack = <<>>
    /\ nodes_searched = 0
    /\ UiIdle

\* main: a piece dropped on one of its legal destinations; every reply to a check is
\* tried, and otherwise the destinations of GameTiles
GameMove ==
    /\ Len(movers) < MaxGamePlies
    /\ \E from \in DOMAIN board.tiles :
         /\ board.tiles[from].color = board.current_turn
         /\ \E to \in Range(get_legal_moves_with_check(board, from)) :
              /\ to \in GameTiles \/ is_in_check(board.tiles, board.current_turn)
              /\ DoMovePiece(from, to, TRUE)

NextGame == GameMove

SpecGame == InitGame /\ [][NextGame]_vars

-----------------------------------------------------------------------------
(* The status queries: has_any_legal_moves, is_checkmate and is_stalemate called for
   either colour on positions set up piece by piece *)

\* how many further pieces are placed before the queries, and which
MaxStatusExtra == 1
StatusPieces == { Pc("white", "queen"), Pc("black", "knight") }

\* the mated position with the turn left with the side that gave mate
FixMatedOffTurn == [FixMated EXCEPT !.current_turn = "white"]

StatusBoards ==
    { FixMate, FixMated, FixMatedOffTurn, FixStalemated, FixPin, FixForcedMate }

InitStatus ==
    /\ board \in StatusBoards
    /\ hash_order = "asc"
    /\ ret = "none"
    /\ last = NoOp
    /\ movers = <<>>
    /\ all_legal = TRUE
    /\ engine_color = "black"
    /\ search_depth = COMPUTATION_DEPTH
    /\ best_move = NoMove
    /\ played = NoPlay
    /\ pre = board
    /\ out = <<>>
    /\ stack = <<>>
    /\ nodes_searched = 0
    /\ UiIdle

\* board.place_piece(q, r, color, name) of a further piece before the queries
StatusPlace ==
    /\ last.op \in {"none", "place_piece"}
    /\ Cardinality(DOMAIN board.tiles) < Cardinality(DOMAIN pre.tiles) + MaxStatusExtra
    /\ \E p \in EvalTiles, pc \in StatusPieces :
         /\ board' = place_piece(board, p, pc).board
         /\ last' = [op |-> "place_piece", from |-> p, to |-> NoCoord, piece |-> pc,
                     turn |-> board.current_turn]
         /\ out' = place_piece(board, p, pc).ok
         /\ UNCHANGED <<hash_order, ret, movers, all_legal, engine_color, search_depth,
                        best_move, played, pre, descent_vars, ui_vars>>

HasAnyLegalMoves ==
    \E c \in Colors :
        Returned("has_any_legal_moves", NoCoord, c, has_any_legal_moves(board, c))

IsCheckmate ==
    \E c \in Colors : Returned("is_checkmate", NoCoord, c, is_checkmate(board, c))

IsStalemate ==
    \E c \in Colors : Returned("is_stalemate", NoCoord, c, is_stalemate(board, c))

NextStatus == StatusPlace \/ HasAnyLegalMoves \/ IsCheckmate \/ IsStalemate

SpecStatus == InitStatus /\ [][NextStatus]_vars

-----------------------------------------------------------------------------
(* main: the frames of the event loop, the make_engine_move task and the worker thread
   that runs chess_engine.find_best_move on engine_board *)

\* the largest search depth of chess_engine, the most moves the history holds and the
\* most mouse events one frame handles
MaxUiDepth == 1
MaxHistory == 5
MaxEvents == 2

\* the tiles the pointer visits
UiTiles == { <<-4, 5>>, <<-4, 4>>, <<-3, 4>>, <<-3, 3>>, <<-3, 2>> }

\* the button under the pointer
Buttons == {"none", "reset", "undo", "flip"}

\* where the pointer is when a frame samples it: on a tile or on a button
Pointers ==
    { [hovered_coord |-> c, button |-> "none"] : c \in UiTiles }
      \cup { [hovered_coord |-> NoCoord, button |-> b] : b \in Buttons }

\* the mouse events of one frame, in the order of pygame.event.get()
EventLists ==
    UNION { [1..n -> {"MOUSEBUTTONDOWN", "MOUSEBUTTONUP"}] : n \in 0..MaxEvents }

\* what the handlers of one frame read and write
UiState ==
    [board |-> board, engine_thinking |-> engine_thinking, tasks |-> tasks,
     selected_tile |-> selected_tile, dragging |-> dragging, legal_moves |-> legal_moves,
     history |-> history, flip_locked |-> flip_locked, flipped |-> flipped]

\* board.capture_move_info(from, to): what undo_move needs to take the move back
capture_move_info(b, from, to) ==
    [captured |-> PieceAt(b.tiles, to),
     current_turn |-> b.current_turn,
     en_passant_target |-> b.en_passant_target,
     pending_promotion |-> b.pending_promotion]

\* board.undo_move(from, to, move_info): the piece goes back, the captured piece returns
undo_move(b, from, to, info) ==
    IF ~HasPiece(b.tiles, to) THEN b
    ELSE LET back == Transfer(b.tiles, to, from)
         IN [b EXCEPT !.tiles = IF info.captured = NoPiece THEN back
                                 ELSE SetPiece(back, to, info.captured),
                      !.current_turn = info.current_turn,
                      !.en_passant_target = info.en_passant_target,
                      !.pending_promotion = info.pending_promotion]

\* board.promote_pawn(kind): the pawn of the pending promotion becomes a piece of that
\* kind and the turn passes
promote_pawn(b, kind) ==
    IF b.pending_promotion = NoCoord THEN b
    ELSE LET pp == b.pending_promotion
             at == <<pp[1], pp[2]>>
         IN [b EXCEPT !.tiles = SetPiece(b.tiles, at, Pc(pp[3], kind)),
                      !.pending_promotion = NoCoord,
                      !.current_turn = Opp(b.current_turn)]

\* board.toggle_flip(): the board is drawn from the other side
toggle_flip(f) == ~f

\* the promotion button under the pointer: there is none unless a promotion is pending
PromotionHovers(b) ==
    IF b.pending_promotion = NoCoord THEN {"none"}
    ELSE {"none", "queen", "rook", "bishop", "knight"}

\* the test before both asyncio.create_task(make_engine_move()) calls
engine_is_due(b, thinking) == b.current_turn = engine_color /\ ~thinking

\* the user may pick up or drop a piece
input_open(thinking) == ~thinking

\* a reset that also clears engine_thinking
reset_clicked_unlocks(s) ==
    [s EXCEPT !.board = setup_initial_board,
              !.selected_tile = NoCoord, !.dragging = FALSE, !.legal_moves = <<>>,
              !.history = <<>>, !.flip_locked = FALSE, !.engine_thinking = FALSE]

\* the reset button was clicked: setup_initial_board(board), the selection and the
\* history are cleared and the flip button is unlocked
reset_clicked(s) ==
    [s EXCEPT !.board = setup_initial_board,
              !.selected_tile = NoCoord, !.dragging = FALSE, !.legal_moves = <<>>,
              !.history = <<>>, !.flip_locked = FALSE]

\* the MOUSEBUTTONDOWN branch of the event loop, h being what the frame found under the
\* pointer
mouse_button_down(s, h) ==
    IF s.board.pending_promotion # NoCoord /\ h.promotion_hover # "none"
    THEN LET b == promote_pawn(s.board, h.promotion_hover)
         IN [s EXCEPT !.board = b,
                      !.tasks = IF engine_is_due(b, s.engine_thinking)
                                THEN Append(s.tasks, "created") ELSE s.tasks]
    ELSE IF h.reset_hover
    THEN reset_clicked(s)
    ELSE IF h.undo_hover /\ ~s.engine_thinking
    THEN IF s.history = <<>> THEN s
         ELSE LET move_data == s.history[Len(s.history)]
              IN [s EXCEPT !.history = SubSeq(s.history, 1, Len(s.history) - 1),
                           !.board = undo_move(s.board, move_data.from, move_data.to,
                                               move_data.move_info),
                           !.selected_tile = NoCoord, !.dragging = FALSE,
                           !.legal_moves = <<>>]
    ELSE IF h.flip_hover
    THEN [s EXCEPT !.flipped = toggle_flip(s.flipped)]
    ELSE IF h.hovered_coord # NoCoord /\ input_open(s.engine_thinking)
    THEN IF /\ HasPiece(s.board.tiles, h.hovered_coord)
            /\ s.board.tiles[h.hovered_coord].color = s.board.current_turn
         THEN [s EXCEPT !.selected_tile = h.hovered_coord, !.dragging = TRUE,
                        !.legal_moves = get_legal_moves_with_check(s.board, h.hovered_coord)]
         ELSE s
    ELSE s

\* the MOUSEBUTTONUP branch of the event loop
mouse_button_up(s, h) ==
    LET drop == /\ s.dragging
                /\ s.selected_tile # NoCoord
                /\ h.hovered_coord # NoCoord
                /\ input_open(s.engine_thinking)
                /\ h.hovered_coord \in Range(s.legal_moves)
        r == IF drop THEN move_piece(s.board, s.selected_tile, h.hovered_coord)
             ELSE [ok |-> FALSE, board |-> s.board]
        move_made == r.ok
    IN [s EXCEPT !.board = r.board,
                 !.history = IF move_made
                             THEN Append(s.history,
                                         [from |-> s.selected_tile, to |-> h.hovered_coord,
                                          move_info |-> capture_move_info(s.board,
                                                           s.selected_tile, h.hovered_coord)])
                             ELSE s.history,
                 !.dragging = FALSE, !.selected_tile = NoCoord, !.legal_moves = <<>>,
                 !.tasks = IF move_made /\ engine_is_due(r.board, s.engine_thinking)
                           THEN Append(s.tasks, "created") ELSE s.tasks]

\* the for loop over pygame.event.get(): the events from the k-th on
RECURSIVE handle_events(_, _, _, _)
handle_events(s, h, events, k) ==
    IF k > Len(events) THEN s
    ELSE handle_events(IF events[k] = "MOUSEBUTTONDOWN" THEN mouse_button_down(s, h)
                       ELSE mouse_button_up(s, h),
                       h, events, k + 1)

\* the tiles of engine_board after the tiles of board became tl
SeenByEngine(tl) ==
    IF shares_tiles THEN [engine_board EXCEPT !.tiles = tl] ELSE engine_board

\* the tiles of board after the tiles of engine_board became tl
SeenByUi(tl) ==
    IF shares_tiles THEN [board EXCEPT !.tiles = tl] ELSE board

\* the index of the oldest task in state st, 0 if there is none
Oldest(st) ==
    IF \E k \in 1..Len(tasks) : tasks[k] = st
    THEN CHOOSE k \in 1..Len(tasks) : tasks[k] = st /\ \A j \in 1..(k - 1) : tasks[j] # st
    ELSE 0

InitUi ==
    /\ board = setup_initial_board
    /\ hash_order = "asc"
    /\ ret = "none"
    /\ last = NoOp
    /\ movers = <<>>
    /\ all_legal = TRUE
    /\ engine_color = "black"
    /\ search_depth \in 1..MaxUiDepth
    /\ best_move = NoMove
    /\ played = NoPlay
    /\ pre = board
    /\ out = <<>>
    /\ stack = <<>>
    /\ nodes_searched = 0
    /\ UiIdle

\* one pass of the while loop of main: the pointer is sampled, the queued mouse events
\* are handled in order, and the frame ends in `await asyncio.sleep(0)`. A task created
\* in a frame starts before the next frame begins. A frame that changes nothing is a
\* stuttering step.
Frame ==
    /\ Oldest("created") = 0
    /\ \E pointer \in Pointers, events \in EventLists, promo \in PromotionHovers(board) :
         LET h == [hovered_coord |-> pointer.hovered_coord,
                   reset_hover |-> pointer.button = "reset",
                   undo_hover |-> pointer.button = "undo",
                   flip_hover |-> pointer.button = "flip" /\ ~flip_locked,
                   promotion_hover |-> promo]
             s == handle_events(UiState, h, events, 1)
         IN /\ s # UiState
            /\ Len(s.history) <= MaxHistory
            /\ board' = s.board
            /\ engine_board' = SeenByEngine(s.board.tiles)
            /\ engine_thinking' = s.engine_thinking
            /\ tasks' = s.tasks
            /\ selected_tile' = s.selected_tile
            /\ dragging' = s.dragging
            /\ legal_moves' = s.legal_moves
            /\ history' = s.history
            /\ flip_locked' = s.flip_locked
            /\ flipped' = s.flipped
    /\ UNCHANGED <<hash_order, ret, last, movers, all_legal, engine_color, search_depth,
                   best_move, played, pre, out, descent_vars, shares_tiles>>

\* a synchronisation that hands the tile objects of board to engine_board
sync_engine_board_shared(eb, b) ==
    [board |-> [eb EXCEPT !.tiles = b.tiles,
                          !.current_turn = b.current_turn,
                          !.en_passant_target = b.en_passant_target,
                          !.pending_promotion = b.pending_promotion,
                          !.captured_pieces = b.captured_pieces],
     shares_tiles |-> TRUE]

\* engine_board after make_engine_move synchronised it with board b: the tiles are a
\* deep copy
sync_engine_board(eb, b) ==
    [board |-> [eb EXCEPT !.tiles = b.tiles,
                          !.current_turn = b.current_turn,
                          !.en_passant_target = b.en_passant_target,
                          !.pending_promotion = b.pending_promotion,
                          !.captured_pieces = b.captured_pieces],
     shares_tiles |-> FALSE]

\* make_engine_move runs up to its await: the flags are set, engine_board is
\* synchronised and find_best_move is handed to the executor, where it is entered
TaskStarts ==
    /\ Oldest("created") # 0
    /\ LET synced == sync_engine_board(engine_board, board)
       IN /\ engine_board' = synced.board
          /\ shares_tiles' = synced.shares_tiles
          /\ stack' = <<root_frame(synced.board)>>
    /\ engine_thinking' = TRUE
    /\ flip_locked' = TRUE
    /\ tasks' = [tasks EXCEPT ![Oldest("created")] = "searching"]
    /\ nodes_searched' = 0
    /\ pre' = board
    /\ last' = [NoOp EXCEPT !.op = "searching", !.turn = board.current_turn]
    /\ UNCHANGED <<board, hash_order, ret, movers, all_legal, engine_color, search_depth,
                   best_move, played, out, selected_tile, dragging, legal_moves, history,
                   flipped>>

\* the worker: the frame on top takes its next move on engine_board
WorkerCalls ==
    /\ stack # <<>>
    /\ ~frame_done(Top)
    /\ Len(stack) < MaxFrames
    /\ LET snap == snapshot_board(engine_board)
           after == apply_in_search(engine_board, Top.moves[Top.i], snap)
       IN /\ engine_board' = after
          /\ board' = SeenByUi(after.tiles)
          /\ stack' = Append(ReplaceTop([Top EXCEPT !.snap = snap]), child_frame(Top, after))
    /\ nodes_searched' = nodes_searched + 1
    /\ UNCHANGED <<hash_order, ret, last, movers, all_legal, engine_color, search_depth,
                   best_move, played, pre, out, shares_tiles, engine_thinking, tasks,
                   selected_tile, dragging, legal_moves, history, flip_locked, flipped>>

\* the worker: the _minimax call on top returns and its caller restores engine_board
WorkerReturns ==
    /\ Len(stack) >= 2
    /\ frame_done(Top)
    /\ LET caller == stack[Len(stack) - 1]
           restored == restore_board(engine_board, caller.snap)
       IN /\ stack' = [SubSeq(stack, 1, Len(stack) - 1) EXCEPT
                          ![Len(stack) - 1] = frame_after(caller, frame_value(Top, engine_board))]
          /\ engine_board' = restored
          /\ board' = SeenByUi(restored.tiles)
    /\ UNCHANGED <<hash_order, ret, last, movers, all_legal, engine_color, search_depth,
                   best_move, played, pre, out, nodes_searched, shares_tiles,
                   engine_thinking, tasks, selected_tile, dragging, legal_moves, history,
                   flip_locked, flipped>>

\* the worker: find_best_move returns and the future of the executor is done
WorkerFinishes ==
    /\ Len(stack) = 1
    /\ frame_done(Top)
    /\ Oldest("searching") # 0
    /\ best_move' = Top.best
    /\ stack' = <<>>
    /\ tasks' = [tasks EXCEPT ![Oldest("searching")] = "returned"]
    /\ UNCHANGED <<board, hash_order, ret, last, movers, all_legal, engine_color,
                   search_depth, played, pre, out, nodes_searched, engine_board, shares_tiles,
                   engine_thinking, selected_tile, dragging, legal_moves, history,
                   flip_locked, flipped>>

\* make_engine_move after its await: best_move is applied to board, the move is recorded
\* when move_piece made it, a pending promotion becomes a queen, and the flags are cleared
TaskFinishes ==
    /\ Oldest("returned") # 0
    /\ LET r == IF best_move.found THEN move_piece(board, best_move.from, best_move.to)
                ELSE [ok |-> FALSE, board |-> board]
           b == IF best_move.found THEN promote_pawn(r.board, "queen") ELSE board
       IN /\ board' = b
          /\ engine_board' = SeenByEngine(b.tiles)
          /\ history' = IF r.ok
                        THEN Append(history,
                                    [from |-> best_move.from, to |-> best_move.to,
                                     move_info |-> capture_move_info(board, best_move.from,
                                                                     best_move.to)])
                        ELSE history
          /\ ret' = IF r.ok THEN "true" ELSE "false"
    /\ engine_thinking' = FALSE
    /\ flip_locked' = FALSE
    /\ tasks' = [k \in 1..(Len(tasks) - 1) |->
                    IF k < Oldest("returned") THEN tasks[k] ELSE tasks[k + 1]]
    /\ last' = [op |-> "make_engine_move", from |-> best_move.from, to |-> best_move.to,
                piece |-> PieceAt(board.tiles, best_move.from), turn |-> board.current_turn]
    /\ UNCHANGED <<hash_order, movers, all_legal, engine_color, search_depth, best_move,
                   played, pre, out, descent_vars, shares_tiles, selected_tile, dragging,
                   legal_moves, flipped>>

NextUi ==
    \/ Frame
    \/ TaskStarts
    \/ WorkerCalls
    \/ WorkerReturns
    \/ WorkerFinishes
    \/ TaskFinishes

SpecUi == InitUi /\ [][NextUi]_vars

-----------------------------------------------------------------------------
(* The move ordering: _order_moves called on the legal moves of the side to move *)

\* a rook that can take a pawn and a king that can take a knight
FixCaptures ==
    NewBoard(<<1, 0>> :> Pc("white", "king") @@ <<-3, 0>> :> Pc("white", "rook")
               @@ <<-5, 5>> :> Pc("black", "king") @@ <<2, -1>> :> Pc("black", "knight")
               @@ <<-3, -2>> :> Pc("black", "pawn"), "white")

OrderBoards == { FixCaptures, FixPin, setup_initial_board }

InitOrder ==
    /\ board \in OrderBoards
    /\ hash_order = "asc"
    /\ ret = "none"
    /\ last = NoOp
    /\ movers = <<>>
    /\ all_legal = TRUE
    /\ engine_color = "black"
    /\ search_depth = COMPUTATION_DEPTH
    /\ best_move = NoMove
    /\ played = NoPlay
    /\ pre = board
    /\ out = <<>>
    /\ stack = <<>>
    /\ nodes_searched = 0
    /\ UiIdle

\* chess_engine._order_moves(all_moves, current_turn), all_moves being the legal moves of
\* the side to move as _minimax collects them
OrderMoves ==
    /\ last.op \in {"none", "place_piece"}
    /\ out' = order_moves(board, collect_moves(board, board.current_turn), board.current_turn)
    /\ last' = [NoOp EXCEPT !.op = "_order_moves", !.turn = board.current_turn]
    /\ UNCHANGED <<board, hash_order, ret, movers, all_legal, engine_color, search_depth,
                   best_move, played, pre, descent_vars, ui_vars>>

NextOrder == EvalPlace \/ OrderMoves

SpecOrder == InitOrder /\ [][NextOrder]_vars

-----------------------------------------------------------------------------
(* Properties of the validator and of move_piece *)

\* the king of `color` stands on a square some piece of the other side attacks
KingAttacked(tl, color) ==
    \E k \in DOMAIN tl :
        /\ tl[k] = Pc(color, "king")
        /\ \A o \in DOMAIN tl : tl[o] = Pc(color, "king") => (o = k \/ TileBefore(k, o))
        /\ \E t \in DOMAIN tl : tl[t].color = Opp(color) /\ AttacksFrom(tl, t, k)

\* the pseudo-legal destinations of the piece on p that do not expose its own king
SafeDestinations(b, p) ==
    { d \in Range(MovesOfKind(b.tiles, p, b.tiles[p].color, b.tiles[p].name)) :
        ~KingAttacked(Transfer(b.tiles, p, d), b.tiles[p].color) }

\* C1: for every tile, get_legal_moves_with_check returns exactly the pseudo-legal
\* destinations after which the mover's king is not attacked when the tile holds a
\* piece of the side to move, and the empty list when the tile is off-board, empty
\* or holds a piece of the other side.
C1_LegalMovesAreSafePseudoLegal ==
    \A p \in Tiles \cup {OffBoard} :
        IF HasTile(p) /\ HasPiece(board.tiles, p) /\ board.tiles[p].color = board.current_turn
        THEN Range(get_legal_moves_with_check(board, p)) = SafeDestinations(board, p)
        ELSE get_legal_moves_with_check(board, p) = <<>>

\* after a move, a piece of the side to move keeps some of its pseudo-legal moves and
\* loses others
C1_Witness ==
    /\ ret = "true"
    /\ \E p \in DOMAIN board.tiles :
         /\ board.tiles[p].color = board.current_turn
         /\ get_legal_moves_with_check(board, p) # <<>>
         /\ Range(get_legal_moves_with_check(board, p)) # Range(get_legal_moves(board, p))

\* C2: get_game_status returns one of the four statuses for the side to move:
\* checkmate iff in check without a legal move, stalemate iff not in check without
\* a legal move, check iff in check with a legal move, active otherwise.
C2_StatusMatchesCheckAndMobility ==
    LET c == board.current_turn
        chk == KingAttacked(board.tiles, c)
        mv == \E t \in Tiles : get_legal_moves_with_check(board, t) # <<>>
        s == get_game_status(board)
    IN /\ s \in {"checkmate", "stalemate", "check", "active"}
       /\ (s = "checkmate") <=> (chk /\ ~mv)
       /\ (s = "stalemate") <=> (~chk /\ ~mv)
       /\ (s = "check") <=> (chk /\ mv)
       /\ (s = "active") <=> (~chk /\ mv)

\* a move has just mated the side to move
C2_Witness ==
    /\ ret = "true"
    /\ get_game_status(board) = "checkmate"

\* the conditions under which move_piece has to refuse a call
Rejectable(b, from, to) ==
    \/ from \notin Tiles
    \/ to \notin Tiles
    \/ from \notin DOMAIN b.tiles
    \/ from = to
    \/ b.tiles[from].color # b.current_turn

\* C3: move_piece returns false and changes no occupant and not the side to move
\* when the source or the destination is off-board, the source is empty, source and
\* destination are the same tile, or the piece is not of the side to move.
C3_RejectedCallChangesNothing ==
    [][(last'.op = "move_piece" /\ Rejectable(board, last'.from, last'.to))
         => (ret' = "false" /\ board'.tiles = board.tiles
               /\ board'.current_turn = board.current_turn)]_vars

\* a call on two distinct tiles was refused because the piece was of the side not to move
C3_Witness ==
    /\ last.op = "move_piece"
    /\ ret = "false"
    /\ HasTile(last.from) /\ HasTile(last.to) /\ last.from # last.to
    /\ last.piece # NoPiece
    /\ last.piece.color # last.turn
    /\ board.current_turn = last.turn

\* C4: a successful move_piece that leaves no promotion pending toggles the side to
\* move, a failed one leaves it alone, and so the successful moves are made by the
\* two sides in strict alternation, the side to move of the starting board first.
C4_TurnAlternates ==
    [][last'.op = "move_piece" =>
         /\ (ret' = "true" /\ board'.pending_promotion = NoCoord)
                => board'.current_turn = Opp(board.current_turn)
         /\ ret' = "false" => (board'.current_turn = board.current_turn /\ movers' = movers)
         /\ ret' = "true" =>
                /\ movers' = Append(movers, board.current_turn)
                /\ movers # <<>> => movers[Len(movers)] = Opp(board.current_turn)]_vars

\* two successful moves, the first by white and the second by black
C4_Witness ==
    /\ Len(movers) >= 2
    /\ movers[1] = "white" /\ movers[2] = "black"
    /\ last.op = "move_piece"

-----------------------------------------------------------------------------
(* Properties of the search *)

\* the largest and the smallest entry of a non-empty list of values
MaxOf(vals) == CHOOSE v \in vals : \A w \in vals : w <= v
MinOf(vals) == CHOOSE v \in vals : \A w \in vals : v <= w

\* minimax over the whole tree below b: every move of every node is searched
RECURSIVE FullMinimax(_, _, _)
FullMinimax(b, depth, is_maximizing) ==
    IF depth = 0 THEN evaluate_engine_position(b)
    ELSE LET moves == collect_moves(b, b.current_turn)
             vals == { FullMinimax(apply_in_search(b, m, snapshot_board(b)),
                                   depth - 1, ~is_maximizing) : m \in Range(moves) }
         IN IF moves = <<>>
            THEN IF is_in_check(b.tiles, b.current_turn)
                 THEN mate_score(depth, is_maximizing)
                 ELSE evaluate_engine_position(b)
            ELSE IF is_maximizing THEN MaxOf(vals) ELSE MinOf(vals)

\* the first of the ordered root moves whose full-minimax value is the largest
FullBest(b) ==
    LET moves == order_moves(b, collect_moves(b, engine_color), engine_color)
        vals == AsList([i \in DOMAIN moves |->
                   FullMinimax(apply_in_search(b, moves[i], snapshot_board(b)),
                               search_depth - 1, FALSE)])
        best == MaxOf(Range(vals))
    IN IF moves = <<>> THEN NoMove
       ELSE LET first == CHOOSE i \in DOMAIN moves :
                            /\ vals[i] = best
                            /\ \A j \in DOMAIN moves : vals[j] = best => i <= j
            IN BestMove(moves[first], best)

\* C5: at search depth 1 or 2, with the engine side to move, find_best_move returns
\* the move and the value of an unpruned minimax over the same tree with the same
\* leaf evaluation, the same move order and the first maximum winning ties.
C5_AlphaBetaEqualsFullMinimax ==
    (last.op = "find_best_move" /\ search_depth \in {1, 2} /\ pre.current_turn = engine_color)
        => best_move = FullBest(pre)

\* a two-ply search that chose among several moves and found no mate
C5_Witness ==
    /\ last.op = "find_best_move"
    /\ search_depth = 2
    /\ pre.current_turn = engine_color
    /\ best_move.found
    /\ best_move.value < PosInf
    /\ Len(collect_moves(pre, engine_color)) > 1

\* C6: with the engine side to move, find_best_move returns nothing iff that side
\* has no legal move, and otherwise returns one of its legal moves, also when every
\* legal move leads to the engine being mated within the search depth.
C6_NothingIffNoLegalMove ==
    (last.op = "find_best_move" /\ pre.current_turn = engine_color)
        => /\ best_move.found <=> (collect_moves(pre, engine_color) # <<>>)
           /\ best_move.found =>
                <<best_move.from, best_move.to>> \in Range(collect_moves(pre, engine_color))

\* C7: when find_best_move returns, and when the _minimax call under each root move
\* returns, the board equals the board the call was entered with: occupants, side to
\* move, en-passant target, pending promotion and captured lists.
C7_SearchRestoresBoard ==
    last.op = "find_best_move" =>
        /\ board = pre
        /\ \A m \in Range(collect_moves(pre, engine_color)) :
             LET entered == apply_in_search(pre, m, snapshot_board(pre))
             IN minimax(entered, search_depth - 1, FALSE, NegInf, PosInf).board = entered

\* a search of two plies or more that settled on a capture
C7_Witness ==
    /\ last.op = "find_best_move"
    /\ search_depth >= 2
    /\ best_move.found
    /\ HasPiece(pre.tiles, best_move.to)
    /\ board = pre

\* C8: when play_best_move finds a move, exactly that move has been applied to the
\* board, no promotion is pending, a pawn that reached its promotion zone is now a
\* queen of the engine's side and the opponent is to move; when it finds none it
\* returns the null result and leaves the board unchanged.
C8_PlayAppliesMoveAndPromotes ==
    last.op = "play_best_move" =>
        IF played.success
        THEN LET arrived == IF last.piece.name = "pawn" /\ last.to \in PromotionZone(engine_color)
                            THEN Pc(engine_color, "queen") ELSE last.piece
             IN /\ last.piece.color = engine_color
                /\ board.tiles = SetPiece(Transfer(pre.tiles, last.from, last.to), last.to, arrived)
                /\ board.pending_promotion = NoCoord
                /\ board.current_turn = Opp(engine_color)
        ELSE board = pre

-----------------------------------------------------------------------------
(* Properties of promotion and en passant *)

\* C9: when move_piece moves a pawn onto a tile of the mover's promotion zone, the
\* pending promotion (coordinate and side) is recorded and the side to move does not
\* change, so whenever a promotion is pending the side that moved the pawn is to move.
C9_PromotionSuspendsTurn ==
    [][(/\ last'.op = "move_piece" /\ ret' = "true"
        /\ last'.piece.name = "pawn"
        /\ last'.to \in PromotionZone(last'.piece.color))
          => /\ board'.pending_promotion = <<last'.to[1], last'.to[2], last'.piece.color>>
             /\ board'.current_turn = board.current_turn]_vars

\* the move is a two-square advance of a pawn from one of its side's starting squares
TwoSquareAdvance(op) ==
    /\ op.piece.name = "pawn"
    /\ op.from \in (IF op.piece.color = "white" THEN white_pawn_starts ELSE black_pawn_starts)
    /\ op.to = Add(Add(op.from, forward_dir(op.piece.color)), forward_dir(op.piece.color))

\* C10: a two-square pawn advance from the pawn's starting square sets the en-passant
\* target to the skipped square, and every other move leaves the target cleared.
C10_EnPassantTargetSetAndCleared ==
    [][(last'.op = "move_piece" /\ ret' = "true")
          => board'.en_passant_target =
                IF TwoSquareAdvance(last')
                THEN Add(last'.from, forward_dir(last'.piece.color))
                ELSE NoCoord]_vars

-----------------------------------------------------------------------------
(* Properties of the generators *)

\* the tile on p is on the board and holds no piece
EmptyTile(tl, p) == p \in Tiles /\ p \notin DOMAIN tl

\* the tile on p is on the board and holds a piece of the other side than color
EnemyTile(tl, p, color) == p \in Tiles /\ p \in DOMAIN tl /\ tl[p].color # color

\* the destinations of a pawn of `color` on p: one step forward, two from a starting
\* square, and the oblique-forward tiles that hold an enemy piece
PawnDestinations(tl, p, color) ==
    LET f == IF color = "white" THEN <<0, -1>> ELSE <<0, 1>>
        oblique == IF color = "white" THEN { <<-1, 0>>, <<1, -1>> } ELSE { <<1, 0>>, <<-1, 1>> }
        starts == IF color = "white" THEN white_pawn_starts ELSE black_pawn_starts
        one == <<p[1] + f[1], p[2] + f[2]>>
        two == <<p[1] + 2 * f[1], p[2] + 2 * f[2]>>
    IN { t \in {one} : EmptyTile(tl, t) }
         \cup { t \in {two} : p \in starts /\ EmptyTile(tl, one) /\ EmptyTile(tl, t) }
         \cup { t \in { <<p[1] + d[1], p[2] + d[2]>> : d \in oblique } : EnemyTile(tl, t, color) }

\* C11: the pawn generator returns, without repetition, exactly the empty tile one
\* step forward, the empty tile two steps forward when the pawn stands on a starting
\* square of its side and the first step is empty too, and the oblique-forward tiles
\* that hold an enemy piece.
C11_PawnMovesExact ==
    last.op = "get_pawn_moves" =>
        /\ Range(out) = PawnDestinations(board.tiles, last.from, last.turn)
        /\ Cardinality(Range(out)) = Len(out)

\* a pawn on a starting square with both pushes and a capture
C11_Witness ==
    /\ last.op = "get_pawn_moves"
    /\ last.from \in white_pawn_starts \cup black_pawn_starts
    /\ Len(out) = 3

\* the two tiles obliquely ahead of a pawn of `color` on t
PawnAttacks(t, color) ==
    IF color = "white" THEN { <<t[1] - 1, t[2]>>, <<t[1] + 1, t[2] - 1>> }
    ELSE { <<t[1] + 1, t[2]>>, <<t[1] - 1, t[2] + 1>> }

\* C12: is_square_attacked(q, r, by) is true iff some piece of `by` reaches (q, r): a
\* pawn through one of its two capture directions whatever stands on (q, r), any
\* other piece through its generated move set; pieces of the other side do not count.
C12_AttackedIffReachedByThatSide ==
    last.op = "is_square_attacked" =>
        out = (\E t \in DOMAIN board.tiles :
                 /\ board.tiles[t].color = last.turn
                 /\ IF board.tiles[t].name = "pawn"
                    THEN last.from \in PawnAttacks(t, last.turn)
                    ELSE last.from \in Range(MovesOfKind(board.tiles, t, last.turn,
                                                         board.tiles[t].name)))

\* an empty tile obliquely ahead of a pawn is attacked by it although no pawn of that
\* side can move there
C12_Witness ==
    /\ last.op = "is_square_attacked"
    /\ last.piece = NoPiece
    /\ \A t \in DOMAIN board.tiles : board.tiles[t] = Pc(last.turn, "pawn")
    /\ out = TRUE
    /\ \A t \in DOMAIN board.tiles :
         last.from \notin Range(get_pawn_moves(board.tiles, t, last.turn))

\* the six unit directions
UnitDirs == { <<1, 0>>, <<-1, 0>>, <<0, 1>>, <<0, -1>>, <<1, -1>>, <<-1, 1>> }

\* two steps along a unit direction, then one step along a unit direction 60 degrees
\* from it (two unit directions are 60 degrees apart iff they differ by a unit direction)
KnightTargets(p) ==
    { <<p[1] + 2 * de[1][1] + de[2][1], p[2] + 2 * de[1][2] + de[2][2]>> :
        de \in { x \in UnitDirs \X UnitDirs :
                    <<x[2][1] - x[1][1], x[2][2] - x[1][2]>> \in UnitDirs } }

\* C13: a knight of either side whose 12 target squares are all on the board and
\* empty has exactly these 12 distinct destinations, whatever stands in between.
C13_KnightHasTwelveMoves ==
    (/\ last.op = "get_knight_moves"
     /\ \A t \in KnightTargets(last.from) : EmptyTile(board.tiles, t))
        => /\ Len(out) = 12
           /\ Range(out) = KnightTargets(last.from)
           /\ Cardinality(Range(out)) = 12

\* a knight with twelve free targets and pieces on the two tiles between it and a target
C13_Witness ==
    /\ last.op = "get_knight_moves"
    /\ last.from = <<0, 0>>
    /\ DOMAIN board.tiles = { <<1, 0>>, <<2, 0>> }
    /\ \A t \in KnightTargets(last.from) : EmptyTile(board.tiles, t)
    /\ Len(out) = 12

\* the six directions a bishop slides along
BishopDirs == { <<1, 1>>, <<-1, -1>>, <<2, -1>>, <<-2, 1>>, <<1, -2>>, <<-1, 2>> }

\* the k-th tile from p along d
Along(p, d, k) == <<p[1] + k * d[1], p[2] + k * d[2]>>

\* the tiles a bishop of `color` on p slides to: every tile before it on the way is
\* empty, and the tile itself is empty or holds an enemy piece
BishopReach(tl, p, color) ==
    { Along(p, dk[1], dk[2]) :
        dk \in { x \in BishopDirs \X (1..(2 * BOARD_SIZE)) :
                    /\ \A j \in 1..(x[2] - 1) : EmptyTile(tl, Along(p, x[1], j))
                    /\ \/ EmptyTile(tl, Along(p, x[1], x[2]))
                       \/ EnemyTile(tl, Along(p, x[1], x[2]), color) } }

\* C14: the destinations of a bishop on a tile are, without repetition, exactly the
\* tiles reached by sliding along the six bishop directions up to and including the
\* first enemy piece and short of the first own piece, and every one of them has the
\* colour class (q - r) mod 3 of the origin.
C14_BishopSlidesOnItsColour ==
    (last.op = "get_bishop_moves" /\ last.from \in Tiles) =>
        /\ Range(out) = BishopReach(board.tiles, last.from, last.turn)
        /\ Cardinality(Range(out)) = Len(out)
        /\ \A i \in 1..Len(out) :
             (out[i][1] - out[i][2]) % 3 = (last.from[1] - last.from[2]) % 3

\* a slide that ends on an enemy piece with a further tile behind it
C14_Witness ==
    /\ last.op = "get_bishop_moves"
    /\ last.from = <<0, 0>>
    /\ EnemyTile(board.tiles, <<1, 1>>, last.turn)
    /\ <<1, 1>> \in Range(out)
    /\ <<2, 2>> \notin Range(out)
    /\ Len(out) > 6

-----------------------------------------------------------------------------
(* Properties of the evaluator *)

\* the sum of f[x] over the elements x of S
RECURSIVE Total(_, _)
Total(S, f) ==
    IF S = {} THEN 0
    ELSE LET x == CHOOSE y \in S : TRUE IN f[x] + Total(S \ {x}, f)

\* the weight of a kind of piece in the phase
PhaseWeight(name) ==
    CASE name \in {"knight", "bishop"} -> 1
      [] name = "rook" -> 2
      [] name = "queen" -> 4
      [] OTHER -> 0

PhaseSum(tl) == Total(DOMAIN tl, [t \in DOMAIN tl |-> PhaseWeight(tl[t].name)])

\* material value plus tapered positional value of the piece on t, the king's 20000 included
Worth(tl, t, phase) ==
    (IF tl[t].name = "king" THEN 20000 ELSE PIECE_VALUES(tl[t].name))
      + get_pst_value(tl[t].name, t, tl[t].color, phase)

SideSum(tl, color, phase) ==
    Total({ t \in DOMAIN tl : tl[t].color = color }, [t \in DOMAIN tl |-> Worth(tl, t, phase)])

\* C15: evaluating the starting position set up by setup_initial_board gives score 0, the
\* white and the black sums of material plus positional value being equal
C15_StartPositionScoresZero ==
    (last.op = "evaluate" /\ board = setup_initial_board)
        => /\ out[1] = 0
           /\ SideSum(board.tiles, "white", out[3]) = SideSum(board.tiles, "black", out[3])

\* evaluate has returned on the starting position, 36 pieces on the board
C15_Witness ==
    /\ last.op = "evaluate"
    /\ board = setup_initial_board
    /\ Cardinality(DOMAIN board.tiles) = 36
    /\ out[2] > 0

C17_PhaseIsClampedWeightSum ==
    /\ calculate_phase(board) \in 0..26
    /\ last.op = "calculate_phase"
        => out = (IF PhaseSum(board.tiles) < 26 THEN PhaseSum(board.tiles) ELSE 26)

\* calculate_phase has returned on a position whose weights add up to more than MAX_PHASE
C17_Witness ==
    /\ last.op = "calculate_phase"
    /\ PhaseSum(board.tiles) > MAX_PHASE
    /\ out = MAX_PHASE

-----------------------------------------------------------------------------
(* Properties of the search *)

\* the value _minimax gives board b with the full window
NodeValue(b, depth, is_maximizing) == minimax(b, depth, is_maximizing, NegInf, PosInf).val

\* x is a more extreme score than y for the side that is mated
MoreExtreme(x, y, is_maximizing) == IF is_maximizing THEN x < y ELSE x > y

\* C18: a node without a legal move is scored by mate distance when the side to move is in
\* check (the same mate at another remaining depth scores differently, the one nearer the
\* root, with more depth remaining, the more extreme) and by the plain engine-oriented
\* evaluation when it is not in check
C18_MateScoredByDistance ==
    (last.op = "_minimax" /\ collect_moves(board, board.current_turn) = <<>>)
        => IF is_in_check(board.tiles, board.current_turn)
           THEN \A d \in 1..MaxDepth :
                  d > out.depth
                    => /\ NodeValue(board, d, out.is_maximizing) # out.val
                       /\ MoreExtreme(NodeValue(board, d, out.is_maximizing), out.val,
                                      out.is_maximizing)
           ELSE out.val = evaluate_engine_position(board)

\* the root moves of a search from board b in the order find_best_move tries them
RootMoves(b) == order_moves(b, collect_moves(b, engine_color), engine_color)

\* the searched value of each root move
RootValues(b, moves) ==
    AsList([i \in 1..Len(moves) |->
        NodeValue(apply_in_search(b, moves[i], snapshot_board(b)), search_depth - 1, FALSE)])

\* the first index at which vals has its largest entry
FirstMax(vals) ==
    CHOOSE i \in 1..Len(vals) :
        /\ \A j \in 1..Len(vals) : vals[j] <= vals[i]
        /\ \A j \in 1..(i - 1) : vals[j] < vals[i]

\* what C19 says find_best_move returns when there are root moves
FirstBest(moves, vals) == BestMove(moves[FirstMax(vals)], vals[FirstMax(vals)])

\* C19: among the root moves with the largest searched value, find_best_move returns the
\* one that comes first in the order of _order_moves
C19_TiesKeepFirstRootMove ==
    (last.op = "find_best_move" /\ RootMoves(pre) # <<>>)
        => best_move = FirstBest(RootMoves(pre), RootValues(pre, RootMoves(pre)))

-----------------------------------------------------------------------------
(* Properties of the move ordering *)

\* move m of the side `color` takes a piece
IsCapture(tl, m, color) == EnemyTile(tl, m[2], color)

\* 10 x victim value - attacker value of a capturing move, 0 for any other move
CaptureScore(tl, m, color) ==
    IF IsCapture(tl, m, color)
    THEN 10 * PIECE_VALUES(tl[m[2]].name) - PIECE_VALUES(tl[m[1]].name)
    ELSE 0

\* r is moves in another order
IsPermutation(r, moves) ==
    /\ Len(r) = Len(moves)
    /\ \A m \in Range(moves) \cup Range(r) :
         Cardinality({ i \in 1..Len(r) : r[i] = m })
            = Cardinality({ i \in 1..Len(moves) : moves[i] = m })

\* what C20 says of the list r returned for the moves of `color` on the occupants tl
OrderedAsClaimed(r, tl, color) ==
    \A i, j \in 1..Len(r) :
        i < j =>
          /\ IsCapture(tl, r[j], color) => IsCapture(tl, r[i], color)
          /\ (IsCapture(tl, r[i], color) /\ IsCapture(tl, r[j], color))
                => CaptureScore(tl, r[i], color) >= CaptureScore(tl, r[j], color)
          /\ ((IsCapture(tl, r[i], color) <=> IsCapture(tl, r[j], color))
                 /\ CaptureScore(tl, r[i], color) = CaptureScore(tl, r[j], color))
                => distance_from_center(r[i][2]) <= distance_from_center(r[j][2])

\* C20: _order_moves returns a permutation of its input in which every capturing move
\* precedes every non-capturing move, captures are in non-increasing order of
\* 10 x victim value - attacker value, and moves of equal capture score have the
\* destination closer to the centre first
C20_CapturesFirstByVictimAndAttacker ==
    last.op = "_order_moves"
        => /\ IsPermutation(out, collect_moves(board, board.current_turn))
           /\ OrderedAsClaimed(out, board.tiles, board.current_turn)

-----------------------------------------------------------------------------
(* Properties of the search followed call by call *)

\* the number of plies between the root position and the position of frame k
PliesBelowRoot(k) == k - 1

\* C21: for every search depth D >= 0 no position more than D plies below the root is
\* evaluated or expanded: every _minimax call has one less remaining depth than its
\* caller, and a call at depth 0 or without a legal move makes no further call
C21_DepthBoundsTheSearch ==
    \A k \in 1..Len(stack) :
        /\ PliesBelowRoot(k) <= search_depth
        /\ k >= 2 => stack[k].depth = stack[k - 1].depth - 1
        /\ k < Len(stack) => (k = 1 \/ stack[k].depth # 0) /\ stack[k].moves # <<>>

-----------------------------------------------------------------------------
(* Properties of legal moves applied to the board *)

\* the step is a move_piece(from, to) call with `to` among the legal destinations of
\* `from` on the board the call is made on
LegalMoveApplied ==
    /\ last'.op = "move_piece"
    /\ last'.to \in Range(get_legal_moves_with_check(board, last'.from))

\* the call returned true and the piece stands on `to`, `from` being empty
MoveAccepted ==
    /\ ret' = "true"
    /\ last'.from \notin DOMAIN board'.tiles
    /\ last'.to \in DOMAIN board'.tiles
    /\ board'.tiles[last'.to] = board.tiles[last'.from]
    /\ \A t \in Tiles \ {last'.from, last'.to} :
         (t \in DOMAIN board'.tiles <=> t \in DOMAIN board.tiles)
           /\ (t \in DOMAIN board.tiles => board'.tiles[t] = board.tiles[t])

\* C22: move_piece accepts every (from, to) with `to` in get_legal_moves_with_check(from)
\* of the same board: it returns true and moves the piece; put the other way round, a
\* call that is not accepted was not made with a legal move
C22_LegalMovesAreAccepted == [][MoveAccepted \/ ~LegalMoveApplied]_vars

\* a legal move that took a piece has been accepted
C22_Witness ==
    /\ last.op = "move_piece"
    /\ ret = "true"
    /\ all_legal
    /\ last.to \in DOMAIN board.tiles /\ board.tiles[last.to] = last.piece
    /\ last.from \notin DOMAIN board.tiles
    /\ Cardinality(DOMAIN board.tiles) < Cardinality(DOMAIN pre.tiles)

\* the side to move when frame k was entered: the engine side at the root
TurnAt(k) == IF k = 1 THEN pre.current_turn ELSE stack[k].current_turn

\* C23: in a search entered with the engine side to move, at every _minimax node
\* is_maximizing is true exactly when the side to move is the engine side, each applied
\* move having switched the side to move once
C23_MaximizingIffEngineToMove ==
    pre.current_turn = engine_color
        => /\ \A k \in 2..Len(stack) :
                /\ stack[k].is_maximizing <=> (stack[k].current_turn = engine_color)
                /\ TurnAt(k) = Opp(TurnAt(k - 1))
           /\ stack # <<>> => board.current_turn = TurnAt(Len(stack))

\* two plies below the root the engine side is to move again and the node maximizes, a
\* pawn of the engine side having reached the far edge on the way
C23_Witness ==
    /\ pre.current_turn = engine_color
    /\ Len(stack) = 3
    /\ Top.is_maximizing
    /\ Top.current_turn = engine_color
    /\ \E t \in PromotionZone(engine_color) :
         t \in DOMAIN board.tiles /\ board.tiles[t] = Pc(engine_color, "pawn")

-----------------------------------------------------------------------------
(* Properties of the piece-square tables *)

\* the middlegame and the endgame value of the piece of the last call on its tile
MgValue == pst_func(last.piece.name, last.from, FALSE)
EgValue == pst_func(last.piece.name, last.from, TRUE)

\* C24: the tapered value is the middlegame value at phase MAX_PHASE, the endgame value
\* at phase 0, lies between the two at every phase, and is the same for both sides
C24_TaperedValueBetweenEnds ==
    last.op = "get_pst_value"
        => /\ out.phase = MAX_PHASE => out.value = MgValue
           /\ out.phase = 0 => out.value = EgValue
           /\ Min2(MgValue, EgValue) <= out.value
           /\ out.value <= Max2(MgValue, EgValue)
           /\ out.value = get_pst_value(last.piece.name, last.from, Opp(last.piece.color),
                                        out.phase)

\* a value strictly between a middlegame and an endgame value that differ in sign
C24_Witness ==
    /\ last.op = "get_pst_value"
    /\ out.phase > 0 /\ out.phase < MAX_PHASE
    /\ MgValue < 0 /\ EgValue > 0
    /\ MgValue < out.value /\ out.value < EgValue

-----------------------------------------------------------------------------
(* Properties common to the six generators *)

GeneratorCalls ==
    { "get_pawn_moves", "get_knight_moves", "get_bishop_moves", "get_rook_moves",
      "get_queen_moves", "get_king_moves" }

\* C25: every destination a generator returns is a tile of the board other than the
\* origin, empty or held by the other side; a call that steps off the board, or starts
\* off it, returns a list all the same
C25_DestinationsOnBoardNotOwn ==
    last.op \in GeneratorCalls
        => /\ DOMAIN out = 1..Len(out)
           /\ \A i \in 1..Len(out) :
                /\ out[i] \in Tiles
                /\ out[i] # last.from
                /\ EmptyTile(board.tiles, out[i]) \/ EnemyTile(board.tiles, out[i], last.turn)

\* a rook called on a corner, most of its directions leaving the board at once, slides
\* to a piece of the other side and takes it, with a piece of its own side elsewhere
C25_Witness ==
    /\ last.op = "get_rook_moves"
    /\ last.from = <<5, -5>>
    /\ <<1, -1>> \in Range(out)
    /\ EnemyTile(board.tiles, <<1, -1>>, last.turn)
    /\ \E t \in DOMAIN board.tiles : board.tiles[t].color = last.turn

-----------------------------------------------------------------------------
(* Properties of a game of legal moves *)

KingsOf(tl, color) == { t \in DOMAIN tl : tl[t] = Pc(color, "king") }

\* C26: in a game from the starting position with every move taken from
\* get_legal_moves_with_check, the side that has just moved is not in check and each
\* side has exactly one king
C26_MoverSafeAndKingsStay ==
    /\ all_legal /\ movers # <<>> => ~is_in_check(board.tiles, Opp(board.current_turn))
    /\ \A c \in Colors : Cardinality(KingsOf(board.tiles, c)) = 1

\* the side that has just moved was in check before its move, nothing having been taken
\* so far, and is not in check after it
C26_Witness ==
    /\ last.op = "move_piece"
    /\ ret = "true"
    /\ Cardinality(DOMAIN board.tiles) = 36
    /\ is_in_check(Transfer(board.tiles, last.to, last.from), last.turn)
    /\ ~is_in_check(board.tiles, last.turn)

-----------------------------------------------------------------------------
(* Properties of the status queries *)

\* the side `color` would have a legal move if it were the side to move
CouldMove(b, color) == collect_moves([b EXCEPT !.current_turn = color], color) # <<>>

\* C27: for the side that is not to move has_any_legal_moves is false in every position,
\* so is_checkmate is true exactly when its king is attacked and is_stalemate exactly
\* when it is not; for the side to move has_any_legal_moves tells whether it has a
\* legal move
C27_StatusOfSideNotToMove ==
    /\ (last.op = "has_any_legal_moves" /\ last.turn # board.current_turn) => out = FALSE
    /\ (last.op = "is_checkmate" /\ last.turn # board.current_turn)
          => (out <=> KingAttacked(board.tiles, last.turn))
    /\ (last.op = "is_stalemate" /\ last.turn # board.current_turn)
          => (out <=> ~KingAttacked(board.tiles, last.turn))
    /\ (last.op = "has_any_legal_moves" /\ last.turn = board.current_turn)
          => (out <=> CouldMove(board, last.turn))

\* is_checkmate is true for the side not to move, whose king is attacked and which
\* could move out of the attack if the turn were its own
C27_Witness ==
    /\ last.op = "is_checkmate"
    /\ last.turn # board.current_turn
    /\ out = TRUE
    /\ KingAttacked(board.tiles, last.turn)
    /\ CouldMove(board, last.turn)

-----------------------------------------------------------------------------
(* Properties of main: the live board, the engine's board and the tasks *)

\* a step of the worker: a find_best_move call in progress moves on
WorkerStep == stack # <<>> /\ stack' # stack

\* a step of the worker leaves the tiles and the turn of the live board as they are
WorkerKeepsBoard == ~WorkerStep \/ board' = board

\* while a task is in flight the live board changes only by a reset or by the move
\* the returned search chose
OnlyFinalMoveApplied ==
    \/ board' = board
    \/ ~engine_thinking
    \/ board' = setup_initial_board
    \/ /\ Oldest("returned") # 0
       /\ best_move.found
       /\ board' = move_piece(board, best_move.from, best_move.to).board

\* C28: a running search changes engine_board only, whose tiles are a deep copy of the
\* live tiles: no worker step changes an occupant or the side to move of the live board,
\* and the live board gets the chosen move only after the search has returned
C28_SearchLeavesLiveBoard ==
    [][WorkerKeepsBoard /\ OnlyFinalMoveApplied /\ ~shares_tiles']_vars

\* the worker has an exploratory move on engine_board while the live board still holds
\* the position that was copied
C28_Witness ==
    /\ engine_thinking
    /\ Len(stack) = 2
    /\ board = pre
    /\ engine_board.tiles # board.tiles
    /\ engine_board.current_turn # board.current_turn

\* how many make_engine_move tasks are created and not finished
InFlight == Len(tasks)

\* C29: at most one engine search is in flight: whatever the mouse events, no
\* make_engine_move task is created or started while an earlier one is not finished,
\* and engine_thinking is set from the start of a task to its end
C29_OneSearchInFlight ==
    /\ InFlight <= 1
    /\ (stack # <<>> => Oldest("searching") # 0)
    /\ (Oldest("searching") # 0 \/ Oldest("returned") # 0 => engine_thinking)
    /\ (InFlight = 0 => ~engine_thinking /\ stack = <<>>)

\* a task is searching after the user has reset the board: it is white's turn on the
\* live board and the engine still thinks about the position before the reset
C29_Witness ==
    /\ Oldest("searching") # 0
    /\ Len(stack) = 2
    /\ board = setup_initial_board
    /\ pre # board
    /\ history = <<>>

\* the step in which make_engine_move resumes after its await and finishes
TaskFinishesStep == Oldest("returned") # 0 /\ Len(tasks') < Len(tasks)

\* a step of the event loop while a task is started and not finished
FrameWhileThinking == engine_thinking /\ ~WorkerStep /\ ~TaskFinishesStep

\* C30: the move a search returns changes the live board only if the live board still
\* holds the position copied for that search: while the engine thinks the user changes
\* the board by a reset only, and after a reset the stale move moves no piece
C30_StaleMoveChangesNothing ==
    [][/\ TaskFinishesStep => (board' = board \/ board = pre)
       /\ FrameWhileThinking => (board' = board \/ board' = setup_initial_board)]_vars

====
